---------------------------- MODULE Spec2Model ----------------------------
(***************************************************************************)
(* A model of the AMiT DB-Net/IP client (custom_components/amit/           *)
(* protocol.py): the codec, the stream cipher, the frame builders and the  *)
(* session (AMiTClient._send_receive and the AMiTProtocol callbacks) as    *)
(* they run on an asyncio event loop.                                      *)
(*                                                                         *)
(* Python integers are unbounded, and the 32-bit fields of the protocol do *)
(* not fit the integers of the model checker.  An integer of the program   *)
(* is therefore modelled by its little-endian base-256 digits without      *)
(* trailing zeros (0 is << >>, 581 is <<69, 2>>), and a bytes object by    *)
(* the sequence of its bytes.                                              *)
(***************************************************************************)
EXTENDS Integers, Sequences, FiniteSets, TLC

(***************************************************************************)
(* Unbounded non-negative integers as digit sequences.                     *)
(***************************************************************************)
DigitAt(a, i) == IF i <= Len(a) THEN a[i] ELSE 0

RECURSIVE Norm(_)
Norm(a) ==
    IF a = <<>> THEN a
    ELSE IF a[Len(a)] = 0 THEN Norm(SubSeq(a, 1, Len(a) - 1)) ELSE a

RECURSIVE Dig(_)
Dig(n) == IF n = 0 THEN <<>> ELSE <<n % 256>> \o Dig(n \div 256)

RECURSIVE Val(_)
Val(a) == IF a = <<>> THEN 0 ELSE a[1] + 256 * Val(Tail(a))

RECURSIVE AddFrom(_, _, _, _)
AddFrom(a, b, i, c) ==
    IF i > Len(a) /\ i > Len(b) THEN Dig(c)
    ELSE LET s == DigitAt(a, i) + DigitAt(b, i) + c
         IN  <<s % 256>> \o AddFrom(a, b, i + 1, s \div 256)

Add(a, b) == AddFrom(a, b, 1, 0)

RECURSIVE MulDigFrom(_, _, _, _)
MulDigFrom(a, m, i, c) ==
    IF i > Len(a) THEN Dig(c)
    ELSE LET p == a[i] * m + c
         IN  <<p % 256>> \o MulDigFrom(a, m, i + 1, p \div 256)

RECURSIVE MulFrom(_, _, _)
MulFrom(a, b, i) ==
    IF i > Len(b) THEN <<>>
    ELSE Add(MulDigFrom(a, b[i], 1, 0), <<0>> \o MulFrom(a, b, i + 1))

Mul(a, b) == Norm(MulFrom(a, b, 1))

\* a < b on digit sequences
RECURSIVE LessFrom(_, _, _)
LessFrom(a, b, i) ==
    IF i = 0 THEN FALSE
    ELSE IF a[i] # b[i] THEN a[i] < b[i] ELSE LessFrom(a, b, i - 1)

Less(a, b) ==
    IF Len(a) # Len(b) THEN Len(a) < Len(b) ELSE LessFrom(a, b, Len(a))

\* x & 0xFFFFFFFF
Mask32(a) == Norm(SubSeq(a, 1, IF Len(a) < 4 THEN Len(a) ELSE 4))

\* the first n digits of a, padded with zeros: the n little-endian bytes of a mod 256^n
Pad(a, n) == [i \in 1..n |-> DigitAt(a, i)]

\* (~x) & 0xFFFFFFFF for x >= 0
Not32(a) == Norm([i \in 1..4 |-> 255 - DigitAt(a, i)])

(***************************************************************************)
(* struct.pack / struct.unpack_from.  A failed conversion (struct.error)   *)
(* is the value StructError, a failed subscript the value IndexError: no   *)
(* byte sequence equals either.                                            *)
(***************************************************************************)
StructError == <<-1>>
IndexError == <<-2>>

\* struct.pack('<I', n)
PackU32(n) == IF Len(n) <= 4 THEN Pad(n, 4) ELSE StructError

\* struct.pack('<i', n) for n >= 0: n must be below 2^31
PackI32(n) ==
    IF Len(n) < 4 \/ (Len(n) = 4 /\ n[4] < 128) THEN Pad(n, 4) ELSE StructError

\* a variant that packs the high byte first
PackU16_BigEndian(n) ==
    IF Len(n) <= 2 THEN <<DigitAt(n, 2), DigitAt(n, 1)>> ELSE StructError

\* struct.pack('<H', n)
PackU16(n) == IF Len(n) <= 2 THEN Pad(n, 2) ELSE StructError

\* struct.unpack_from('<I', data, off)[0], off counted from 0
UnpackU32(data, off) ==
    IF Len(data) >= off + 4 THEN Norm(SubSeq(data, off + 1, off + 4))
    ELSE StructError

\* struct.unpack_from('<h', data, off)[0] as the two bytes read (low, high)
UnpackI16(data, off) ==
    IF Len(data) >= off + 2 THEN SubSeq(data, off + 1, off + 2) ELSE StructError

\* data[a:b] of Python, a and b counted from 0
Slice(data, a, b) ==
    SubSeq(data, a + 1, IF b < Len(data) THEN b ELSE Len(data))

XorBit(a, b, w) == IF ((a \div w) % 2) # ((b \div w) % 2) THEN w ELSE 0

\* a variant of ^ that adds the bytes
XorByte_Add(a, b) == (a + b) % 256

\* a ^ b on bytes
XorByte(a, b) ==
    XorBit(a, b, 1) + XorBit(a, b, 2) + XorBit(a, b, 4) + XorBit(a, b, 8)
    + XorBit(a, b, 16) + XorBit(a, b, 32) + XorBit(a, b, 64) + XorBit(a, b, 128)

HEADER_SIZE == 15

\* TYPE_SYNC_KEY = 0x1111 as the two bytes of the type field
TYPE_SYNC_KEY == <<17, 17>>

INT16 == 0
INT32 == 1
FLOAT == 2

(***************************************************************************)
(* The keyed generator and the checksum.                                   *)
(***************************************************************************)
RECURSIVE RandLoop(_, _, _, _)
RandLoop(n, seed, key, mult) ==
    IF n = 0 THEN <<key, mult>>
    ELSE LET k2 == Add(Add(key, key), <<13>>)
         IN  RandLoop(n - 1, seed, k2, Mul(Add(mult, k2), seed))

\* a variant that keeps a password of 0
_randomize_KeepZero(seed, password) ==
    LET r == RandLoop(4, seed, password, Mul(seed, password))
    IN  Mask32(Add(Add(password, r[2]), r[1]))

_randomize(seed, password) ==
    LET pw == IF password = <<>> THEN <<1>> ELSE password
        r  == RandLoop(4, seed, pw, Mul(seed, pw))
    IN  Mask32(Add(Add(pw, r[2]), r[1]))

RECURSIVE ChecksumFrom(_, _, _)
ChecksumFrom(data, i, cs) ==
    IF i > Len(data) THEN cs
    ELSE LET s == cs + data[i]
         IN  ChecksumFrom(data, i + 1, IF s > 255 THEN (s + 1) % 256 ELSE s)

\* a variant that drops the carry: the sum of the bytes modulo 256
RECURSIVE SumFrom(_, _)
SumFrom(data, i) == IF i > Len(data) THEN 0 ELSE data[i] + SumFrom(data, i + 1)

_calc_checksum_Mod(data) == SumFrom(data, 1) % 256

_calc_checksum(data) == ChecksumFrom(data, 1, 0)

(***************************************************************************)
(* _encrypt_msg(msg, password): the XOR stream over msg[15 : 15+msg[14]+6].*)
(* The result is the message after the call, or the error the call raises  *)
(* (msg is a local copy in every caller, so a partial change is unseen).   *)
(***************************************************************************)
EncryptBytes(msg, payload_len, maskA, maskB) ==
    [j \in 1..Len(msg) |->
        LET i == j - 1 - HEADER_SIZE
        IN  IF i >= 0 /\ i < payload_len
            THEN XorByte(msg[j], IF i < 8 THEN maskA[(i % 4) + 1]
                                          ELSE maskB[(i % 4) + 1])
            ELSE msg[j]]

_encrypt_msg(msg, password) ==
    IF Len(msg) < HEADER_SIZE THEN IndexError
    ELSE LET payload_len == msg[15] + 6
             key == UnpackU32(msg, 6)
             transaction_id == UnpackU32(msg, 0)
             maskA == PackU32(_randomize(key, Not32(transaction_id)))
             maskB == PackU32(_randomize(key, transaction_id))
         IN  IF HEADER_SIZE + payload_len > Len(msg) THEN IndexError
             ELSE EncryptBytes(msg, payload_len, maskA, maskB)

(***************************************************************************)
(* The frame builders of AMiTClient.                                       *)
(***************************************************************************)
\* the defaults of AMiTClient.__init__
station_addr == 4
client_addr == 31

\* a variant of the constructor that takes the two addresses for each other
AMiTClient_Swapped(station, client, pw) ==
    [station_addr |-> client, client_addr |-> station, password |-> pw]

\* the fields of a client that its frame builders and its header read
AMiTClient(station, client, pw) ==
    [station_addr |-> station, client_addr |-> client, password |-> pw]

_create_read_frame(self, wid, var_type) ==
    LET payload == <<104, 7, 7, 104, self.station_addr % 32,
                     self.client_addr % 32, 77, 1,
                     var_type>> \o PackU16(wid)
    IN  payload \o <<_calc_checksum(Slice(payload, 4, 11)), 22>>

_create_read_memory_frame(self, address, count) ==
    LET payload == <<104, 10, 10, 104, self.station_addr % 32,
                     self.client_addr % 32, 77, 3>>
                   \o PackU32(address) \o PackU16(count)
    IN  payload \o <<_calc_checksum(Slice(payload, 4, 4 + payload[2])), 22>>


(***************************************************************************)
(* Variables and the codec of their values.  A Variable is the record      *)
(* [name, wid, var_type, writable]; its name is the sequence of its        *)
(* characters' code points, its wid a natural number.                      *)
(***************************************************************************)
ARRAY == 3
TIME_ARRAY == 4
STRUCTURE == 5

\* a variant of is_readable that lets every type through
is_readable_Any(v) == TRUE

\* Variable.is_readable
is_readable(v) == v.var_type \in {INT16, INT32, FLOAT}

\* struct.pack('<h', v) of an integer v
PackI16V(v) ==
    IF v < -32768 \/ v > 32767 THEN StructError
    ELSE LET u == (v + 65536) % 65536 IN <<u % 256, u \div 256>>

\* struct.pack('<i', v) of an integer v with |v| < 2^31
PackI32V(v) ==
    LET lo == ((v % 65536) + 65536) % 65536
        hi == (((v - lo) \div 65536) + 65536) % 65536
    IN  <<lo % 256, lo \div 256, hi % 256, hi \div 256>>

\* the exponent of the leading bit of n >= 1
RECURSIVE Log2(_)
Log2(n) == IF n < 2 THEN 0 ELSE 1 + Log2(n \div 2)

RECURSIVE Pow2(_)
Pow2(e) == IF e = 0 THEN 1 ELSE 2 * Pow2(e - 1)

\* struct.pack('<f', float(v)) of an integer v with |v| < 2^24: the IEEE 754
\* single (sign, exponent + 127, the 23 bits after the leading bit)
PackF32V(v) ==
    IF v = 0 THEN <<0, 0, 0, 0>>
    ELSE LET a == IF v < 0 THEN -v ELSE v
             e == Log2(a)
             mant == (a - Pow2(e)) * Pow2(23 - e)
             ex == e + 127
         IN  <<mant % 256, (mant \div 256) % 256,
               ((ex % 2) * 128) + (mant \div 65536),
               (IF v < 0 THEN 128 ELSE 0) + (ex \div 2)>>

\* struct.unpack('<h', b)[0]; b has two bytes
UnpackI16V(b) ==
    LET u == b[1] + 256 * b[2] IN IF u >= 32768 THEN u - 65536 ELSE u

\* struct.unpack('<i', b)[0] of four bytes
UnpackI32V(b) ==
    b[1] + 256 * b[2] + 65536 * b[3]
    + 16777216 * (IF b[4] >= 128 THEN b[4] - 256 ELSE b[4])

\* struct.unpack('<f', b)[0] of four bytes: the float is kept as the bytes of
\* its IEEE 754 single
UnpackF32V(b) == b

\* lines 240-271; value is an integer
_create_write_frame(self, wid, value, var_type) ==
    LET len == IF var_type = INT16 THEN 9 ELSE 11
        packed == IF var_type = INT16 THEN PackI16V(value)
                  ELSE IF var_type = INT32 THEN PackI32V(value)
                  ELSE PackF32V(value)
        payload == <<104, len, len, 104, self.station_addr % 32,
                     self.client_addr % 32, 69, 2, var_type>> \o PackU16(wid) \o packed
    IN  IF packed = StructError THEN StructError
        ELSE payload \o <<_calc_checksum(Slice(payload, 4, 4 + payload[2])), 22>>

\* fcb & 0x0F
StatusOf(fcb) == fcb % 16

\* line 98
TooShort(data) == Len(data) < 6

\* a failed parse, and a failed subscript inside a parse
Malformed == [error |-> "ValueError", dest_addr |-> 0, src_addr |-> 0,
              status |-> 0, value_data |-> << >>]
ParseIndexError == [Malformed EXCEPT !.error = "IndexError"]

\* lines 96-120: the tuple returned, or the error raised
_parse_response(data) ==
    IF TooShort(data) THEN Malformed
    ELSE IF data[1] = 16
    THEN [error |-> "", dest_addr |-> data[2], src_addr |-> data[3],
          status |-> StatusOf(data[4]), value_data |-> << >>]
    ELSE IF data[1] = 104
    THEN IF Len(data) < 7 THEN ParseIndexError
         ELSE [error |-> "", dest_addr |-> data[5], src_addr |-> data[6],
               status |-> StatusOf(data[7]),
               value_data |-> Slice(data, 8, 8 + data[2] - 4)]
    ELSE Malformed

(***************************************************************************)
(* The session: one AMiTClient, its AMiTProtocol objects, the tasks that   *)
(* call it, the peer and the clock.                                        *)
(***************************************************************************)

\* the tasks that use the client concurrently
Callers == {"A", "B"}

\* the bound of the model: the futures created (the attempts to send) in one
\* behaviour; a behaviour is cut where the next attempt would exceed it
MaxSends == 2

\* AMiTClient.__init__: password = 0, timeout = 2.0 (one clock tick is a second)
password == << >>

\* the client of the session
TheClient == AMiTClient(station_addr, client_addr, password)
timeout == 2

\* the inner frame each caller submits: A reads WID 4000 as test_connection
\* does, B probes the descriptor region as load_variables does
FrameOf(c) ==
    IF c = "A" THEN _create_read_frame(TheClient, Dig(4000), INT16)
    ELSE _create_read_memory_frame(TheClient, <<0, 0, 253, 255>>, Dig(26))

VARIABLES
    _protocol,  \* self._protocol and self._transport: 1 an object, 0 None
    rf,         \* self._protocol._response_future: a future's id, 0 None
    _connected, \* self._connected
    _transaction_id,
    _key,
    _locked,    \* self._lock._locked
    _waiters,   \* self._lock._waiters, in order
    woken,      \* the waiters whose future release() has completed
    pc,         \* per caller: "idle", "waitlock" or "waiting" (in wait_for)
    fut,        \* per caller: the future it awaits: [id, st, data]
    waited,     \* per caller: the time its wait_for has been waiting
    nfut,       \* futures created so far
    torn,       \* history: disconnect has been called
    sent,       \* history: the datagrams transmitted, in order
    answered,   \* history: the transmitted datagrams the peer has answered
    order,      \* history: the callers whose call is in progress, in the
                \* order in which they entered _send_receive
    call,       \* history, per caller: what its call has done so far
    ended,      \* history: the call that ended last, and how: its caller, the
                \* error raised or "ok", the value returned, its history
    task,       \* the operation on variables under way (read_variable,
                \* write_variable, load_variables) and its local variables
    requests,   \* history: the frames that operation has handed to
                \* _send_receive, in order
    ret         \* history: how the operation that ended last ended: what it
                \* returned or raised

vars == <<_protocol, rf, _connected, _transaction_id, _key, _locked, _waiters,
          woken, pc, fut, waited, nfut, torn, sent, answered, order, call, ended,
          task, requests, ret>>

\* the state of the session, and the state of the operations on variables
sessvars == <<_protocol, rf, _connected, _transaction_id, _key, _locked,
              _waiters, woken, pc, fut, waited, nfut, torn, sent, answered,
              order, call, ended>>
opvars == <<task, requests, ret>>

\* no operation yet: the fields are the operation's name, where it stands
\* ("idle", "awaiting" in _send_receive, "loop" at the head of the loop of
\* load_variables, "done"), its arguments, the script of the peer, the local
\* variables of load_variables, and as history whether each probe yielded an
\* accepted descriptor, the sleeps taken and the last outcome of _send_receive;
\* args holds the arguments of a codec function as byte or digit sequences
NoTask == [name |-> "none", pc |-> "idle",
           variable |-> [name |-> << >>, wid |-> 0, var_type |-> 0,
                         writable |-> FALSE],
           value |-> 0, max_variables |-> 0, peer |-> "", free |-> 0,
           index |-> 0, consecutive_failures |-> 0, variables |-> << >>,
           accepted |-> << >>, sleeps |-> 0,
           outcome |-> [kind |-> "none", data |-> << >>],
           args |-> << >>]

\* the tuple _parse_response returns, before any parse
NoTuple == [error |-> "", dest_addr |-> 0, src_addr |-> 0, status |-> 0,
            value_data |-> << >>]

\* a value returned by an operation: an int, a float (the four bytes of its
\* IEEE 754 single), a bool, a list of Variables or a tuple of
\* _parse_response, in the field of its type
NoValue == [int |-> 0, float |-> << >>, bool |-> FALSE, list |-> << >>,
            tuple |-> NoTuple, bytes |-> << >>]
IntValue(x) == [NoValue EXCEPT !.int = x]
FloatValue(b) == [NoValue EXCEPT !.float = b]
BoolValue(b) == [NoValue EXCEPT !.bool = b]
ListValue(l) == [NoValue EXCEPT !.list = l]
TupleValue(t) == [NoValue EXCEPT !.tuple = t]
BytesValue(b) == [NoValue EXCEPT !.bytes = b]

NoRet == [name |-> "none", kind |-> "none", value |-> NoValue, error |-> ""]

NoFuture == [id |-> 0, st |-> "none", data |-> << >>]

\* the history of a call: whether it had to wait for the lock, the counter and
\* the key when it took the lock, the time since its first transmission, the
\* datagrams it transmitted (as indices of sent) and the datagrams wait_for
\* returned to it
NoCall == [queued |-> FALSE, tid0 |-> << >>, key0 |-> << >>, age |-> 0,
           tx |-> << >>, got |-> << >>]

\* AMiTClient.__init__ and AMiTProtocol.__init__
Init ==
    /\ _protocol = 0
    /\ rf = 0
    /\ _connected = FALSE
    /\ _transaction_id = <<1>>
    /\ _key = << >>
    /\ _locked = FALSE
    /\ _waiters = << >>
    /\ woken = {}
    /\ pc = [c \in Callers |-> "idle"]
    /\ fut = [c \in Callers |-> NoFuture]
    /\ waited = [c \in Callers |-> 0]
    /\ nfut = 0
    /\ torn = FALSE
    /\ sent = << >>
    /\ answered = {}
    /\ order = << >>
    /\ call = [c \in Callers |-> NoCall]
    /\ ended = [by |-> "", kind |-> "none", data |-> << >>, call |-> NoCall]
    /\ task = NoTask
    /\ requests = << >>
    /\ ret = NoRet

(***************************************************************************)
(* connect and disconnect.                                                 *)
(***************************************************************************)
\* create_datagram_endpoint succeeded: a transport and an AMiTProtocol.  Every
\* user of AMiTClient in the repository connects a client once, when it is
\* new, and drops it after disconnect.
connect ==
    /\ UNCHANGED opvars
    /\ _protocol = 0
    /\ ~torn
    /\ _protocol' = 1
    /\ rf' = 0
    /\ _connected' = TRUE
    /\ UNCHANGED <<_transaction_id, _key, _locked, _waiters, woken, pc, fut,
                   waited, nfut, torn, sent, answered, order, call, ended>>

\* create_datagram_endpoint raised: connect returns False and changes nothing
connect_failed ==
    /\ _protocol = 0
    /\ ~torn
    /\ UNCHANGED vars

\* disconnect closes the transport and drops it and the AMiTProtocol
disconnect ==
    /\ UNCHANGED opvars
    /\ _protocol' = 0
    /\ rf' = 0
    /\ _connected' = FALSE
    /\ torn' = TRUE
    /\ UNCHANGED <<_transaction_id, _key, _locked, _waiters, woken, pc, fut,
                   waited, nfut, sent, answered, order, call, ended>>

(***************************************************************************)
(* _send_receive and _send_receive_internal.                               *)
(***************************************************************************)
\* a variant that sends every request with the key 0
PackKey_Zero(k) == PackU32(<< >>)

\* line 305: the key field of the header of a request
PackKey(k) == PackU32(k)

\* lines 301-315: the datagram for an inner frame, or the error raised
BuildMsg(self, transaction_id, k, pl) ==
    IF PackI32(transaction_id) = StructError THEN StructError
    ELSE LET header == PackI32(transaction_id) \o <<0, 0>> \o PackKey(k)
                       \o <<0, 0, 0, 0>> \o <<Len(pl) - 6>>
             msg == _encrypt_msg(header \o pl, self.password)
             frame_cs == _calc_checksum(Slice(pl, 4, 4 + pl[2]))
             cs_input == Add(Add(Add(transaction_id, k), Dig(frame_cs)), Dig(256))
             checksum == _randomize(self.password, cs_input)
         IN  SubSeq(msg, 1, 10) \o PackU32(checksum) \o SubSeq(msg, 15, Len(msg))

\* a variant of release() that wakes nobody
WakeUpFirst_Nobody(w) == {}

\* asyncio.Lock.release(): the future of the first waiter of w is completed
WakeUpFirst(w) == IF w = << >> THEN {} ELSE {Head(w)}

\* The call of c ends with `out`: `async with self._lock` releases the lock
\* (w: the lock's waiters, cl: the call's history).
EndCall(c, out, w, cl) ==
    /\ ended' = [by |-> c, kind |-> out.kind, data |-> out.data,
                 call |-> [cl EXCEPT !.age = 0]]
    /\ call' = [call EXCEPT ![c] = NoCall]
    /\ pc' = [pc EXCEPT ![c] = "idle"]
    /\ fut' = [fut EXCEPT ![c] = NoFuture]
    /\ waited' = [waited EXCEPT ![c] = 0]
    /\ _locked' = FALSE
    /\ _waiters' = w
    /\ woken' = WakeUpFirst(w)
    /\ order' = SelectSeq(order, LAMBDA x : x # c)

\* a variant whose retry reads the next WID instead of repeating the request
RetryFrame_Other(c) == _create_read_frame(TheClient, Dig(4001), INT16)

\* the inner frame a KeySync retry submits: the frame of the original request
RetryFrame(c) == FrameOf(c)

\* a variant that numbers every datagram alike
NextTransactionId_Same(t) == t

\* a variant that advances the counter by two
NextTransactionId_Two(t) == Add(t, <<2>>)

\* line 324: self._transaction_id += 1
NextTransactionId(t) == Add(t, <<1>>)

\* a variant without the except and finally clauses: the future stays installed
ClearFuture_Keep == rf

\* lines 331 and 336: self._protocol._response_future = None
ClearFuture == 0

\* a variant without the check of line 298
NotConnected_Never == FALSE

\* line 298: not self._transport or not self._protocol
NotConnected == _protocol = 0

\* _send_receive_internal(pl) from its entry to its first await, run by c
\* holding the lock, with self._key = k, self._protocol._response_future = f,
\* the lock's waiters w and c's history cl.  sendto either transmits the
\* datagram or reports the failure to error_received before it returns (ok).
Internal(c, pl, k, f, w, cl, ok) ==
    /\ _key' = k
    /\ IF NotConnected \/ PackI32(_transaction_id) = StructError
       THEN /\ EndCall(c, [kind |-> IF NotConnected THEN "NotConnected"
                                    ELSE "struct.error", data |-> << >>], w, cl)
            /\ rf' = f
            /\ UNCHANGED <<_transaction_id, nfut, sent>>
       ELSE /\ nfut' = nfut + 1
            /\ rf' = nfut + 1
            /\ fut' = [fut EXCEPT ![c] = [id |-> nfut + 1,
                                          st |-> IF ok THEN "pending" ELSE "exc",
                                          data |-> << >>]]
            /\ sent' = IF ok
                       THEN Append(sent, [by |-> c,
                                          bytes |-> BuildMsg(TheClient, _transaction_id, k, pl)])
                       ELSE sent
            /\ _transaction_id' = NextTransactionId(_transaction_id)
            /\ pc' = [pc EXCEPT ![c] = "waiting"]
            /\ waited' = [waited EXCEPT ![c] = 0]
            /\ call' = [call EXCEPT ![c] =
                          [cl EXCEPT !.tx = IF ok THEN Append(@, Len(sent) + 1)
                                           ELSE @]]
            /\ _locked' = TRUE
            /\ _waiters' = w
            /\ woken' = woken \ {c}
            /\ order' = IF c \in {order[i] : i \in DOMAIN order} THEN order
                        ELSE Append(order, c)
            /\ UNCHANGED ended

\* a variant without the lock
CanAcquire_Always == TRUE

\* a variant of the lock in which a newcomer overtakes the waiters
CanAcquire_Barging == ~_locked

\* Lock.acquire() does not suspend: the lock is free and nobody waits for it
CanAcquire == ~_locked /\ _waiters = << >>

\* c calls _send_receive: Lock.acquire() takes the lock without suspending, and
\* the call runs on to its first await
CallFast(c, ok) ==
    /\ UNCHANGED opvars
    /\ pc[c] = "idle"
    /\ nfut < MaxSends
    /\ CanAcquire
    /\ Internal(c, FrameOf(c), _key, rf, _waiters,
                [NoCall EXCEPT !.tid0 = _transaction_id, !.key0 = _key], ok)
    /\ UNCHANGED <<_protocol, _connected, torn, answered>>

\* c calls _send_receive and has to wait for the lock
CallWait(c) ==
    /\ UNCHANGED opvars
    /\ pc[c] = "idle"
    /\ ~CanAcquire
    /\ _waiters' = Append(_waiters, c)
    /\ pc' = [pc EXCEPT ![c] = "waitlock"]
    /\ call' = [call EXCEPT ![c] = [NoCall EXCEPT !.queued = TRUE]]
    /\ order' = Append(order, c)
    /\ UNCHANGED <<_protocol, rf, _connected, _transaction_id, _key, _locked,
                   woken, fut, waited, nfut, torn, sent, answered, ended>>

\* the waiter that release() woke resumes in Lock.acquire(), takes the lock and
\* runs on to its first await
AcquireResume(c, ok) ==
    /\ UNCHANGED opvars
    /\ pc[c] = "waitlock"
    /\ c \in woken
    /\ nfut < MaxSends
    /\ Internal(c, FrameOf(c), _key, rf, SelectSeq(_waiters, LAMBDA x : x # c),
                [call[c] EXCEPT !.tid0 = _transaction_id, !.key0 = _key], ok)
    /\ UNCHANGED <<_protocol, _connected, torn, answered>>

(***************************************************************************)
(* The peer and the transport callbacks.                                   *)
(***************************************************************************)
\* the key of the peer's KeySync envelopes (0xDEADBEEF) and of its responses
SyncKey == <<239, 190, 173, 222>>
RespKey == <<7>>

\* a data-shape response frame with status 0 and the Int16 value 230
RespInner ==
    LET body == <<client_addr % 32, station_addr % 32, 0, 1, 230, 0>>
    IN  <<104, 6, 6, 104>> \o body \o <<_calc_checksum(body), 22>>

\* the peer's normal response to the request datagram rq, with key k
PeerNormal(rq, k) ==
    _encrypt_msg(Slice(rq, 0, 4) \o <<0, 0>> \o PackU32(k) \o <<0, 0, 0, 0>>
                 \o <<Len(RespInner) - 6>> \o RespInner, password)

\* the peer's KeySync envelope: type 0x1111, the new key, no inner frame
PeerKeySync(rq, k) ==
    Slice(rq, 0, 4) \o TYPE_SYNC_KEY \o PackU32(k) \o <<0, 0, 0, 0, 0>>

\* what may arrive in answer to rq: a normal response, a KeySync, a datagram cut
\* before its type field, and a response that lost its last byte
Kinds == {"normal", "keysync", "cut", "short"}

PeerDatagram(rq, kind) ==
    CASE kind = "normal" -> PeerNormal(rq, RespKey)
      [] kind = "keysync" -> PeerKeySync(rq, SyncKey)
      [] kind = "cut" -> Slice(PeerNormal(rq, RespKey), 0, 5)
      [] kind = "short" -> LET d == PeerNormal(rq, RespKey)
                           IN  Slice(d, 0, Len(d) - 1)

\* the test of datagram_received and error_received: the future f is set and
\* not done
Waiting(f) == \E c \in Callers : f # 0 /\ fut[c].id = f /\ fut[c].st = "pending"

\* a variant without the test of done(): a completed future is given the
\* datagram that arrives after the one it holds
datagram_received_Overwrite(f, data) ==
    [c \in Callers |->
        IF f # 0 /\ fut[c].id = f /\ fut[c].st \in {"pending", "result"}
        THEN [fut[c] EXCEPT !.st = "result", !.data = data]
        ELSE fut[c]]

\* AMiTProtocol.datagram_received on an object whose _response_future is f:
\* the futures after it
datagram_received(f, data) ==
    [c \in Callers |->
        IF f # 0 /\ fut[c].id = f /\ fut[c].st = "pending"
        THEN [fut[c] EXCEPT !.st = "result", !.data = data]
        ELSE fut[c]]

\* AMiTProtocol.error_received on an object whose _response_future is f: the
\* futures after it
error_received(f) ==
    [c \in Callers |->
        IF f # 0 /\ fut[c].id = f /\ fut[c].st = "pending"
        THEN [fut[c] EXCEPT !.st = "exc"]
        ELSE fut[c]]

\* the peer answers the i-th transmitted datagram; the answer arrives at the
\* socket that sent it, while that is open
PeerReply(i, kind) ==
    /\ UNCHANGED opvars
    /\ i \notin answered
    /\ _protocol = 1
    /\ kind = "keysync" => nfut < MaxSends
    /\ answered' = answered \cup {i}
    /\ fut' = datagram_received(rf, PeerDatagram(sent[i].bytes, kind))
    /\ UNCHANGED <<_protocol, rf, _connected, _transaction_id, _key, _locked,
                   _waiters, woken, pc, waited, nfut, torn, sent, order, call,
                   ended>>

\* the i-th transmitted datagram comes back as an ICMP error
PeerError(i) ==
    /\ UNCHANGED opvars
    /\ i \notin answered
    /\ _protocol = 1
    /\ answered' = answered \cup {i}
    /\ fut' = error_received(rf)
    /\ UNCHANGED <<_protocol, rf, _connected, _transaction_id, _key, _locked,
                   _waiters, woken, pc, waited, nfut, torn, sent, order, call,
                   ended>>

(***************************************************************************)
(* The end of the wait in _send_receive_internal (lines 326-352).          *)
(***************************************************************************)
Out(kind, data) == [kind |-> kind, data |-> data]

\* a variant that keeps the key it has when a normal response arrives
ResponseKey_Stale(data) == _key

\* line 346: the key of a normal response
ResponseKey(data) == UnpackU32(data, 6)

\* a variant that returns the response with its envelope
ReturnedFrame_Whole(resp) == resp

\* line 352: bytes(resp[15:])
ReturnedFrame(resp) == Slice(resp, 15, Len(resp))

\* lines 335-352 on the datagram data: the finally clause, then the datagram
Received(c, data, ok) ==
    LET cl == [call[c] EXCEPT !.got = Append(@, data)]
        k  == UnpackU32(data, 6)
    IN  IF UnpackI16(data, 4) = StructError \/ k = StructError
        THEN /\ EndCall(c, Out("struct.error", << >>), _waiters, cl)
             /\ rf' = ClearFuture
             /\ UNCHANGED <<_key, _transaction_id, nfut, sent>>
        ELSE IF UnpackI16(data, 4) = TYPE_SYNC_KEY
        THEN Internal(c, RetryFrame(c), k, ClearFuture, _waiters, cl, ok)
        ELSE /\ _key' = ResponseKey(data)
             /\ LET resp == _encrypt_msg(data, password)
                IN  EndCall(c, IF resp = IndexError THEN Out("IndexError", << >>)
                               ELSE Out("ok", ReturnedFrame(resp)),
                            _waiters, cl)
             /\ rf' = ClearFuture
             /\ UNCHANGED <<_transaction_id, nfut, sent>>

\* wait_for returns the datagram or raises the transport's error; the finally
\* clause of line 335 clears self._protocol._response_future (and fails when
\* self._protocol is None)
Resume(c, ok) ==
    /\ UNCHANGED opvars
    /\ pc[c] = "waiting"
    /\ fut[c].st \in {"result", "exc"}
    /\ IF _protocol = 0
       THEN /\ EndCall(c, Out("AttributeError", << >>), _waiters,
                       IF fut[c].st = "result"
                       THEN [call[c] EXCEPT !.got = Append(@, fut[c].data)]
                       ELSE call[c])
            /\ UNCHANGED <<rf, _key, _transaction_id, nfut, sent>>
       ELSE IF fut[c].st = "exc"
       THEN /\ EndCall(c, Out("OSError", << >>), _waiters, call[c])
            /\ rf' = ClearFuture
            /\ UNCHANGED <<_key, _transaction_id, nfut, sent>>
       ELSE Received(c, fut[c].data, ok)
    /\ UNCHANGED <<_protocol, _connected, torn, answered>>

\* wait_for times out: the future is cancelled, the except clause and the
\* finally clause clear self._protocol._response_future.  A future completed in
\* the instant of the deadline loses against the timeout on Python 3.12 (the
\* task is cancelled) and wins on 3.11 (Resume).
Timeout(c) ==
    /\ UNCHANGED opvars
    /\ pc[c] = "waiting"
    /\ waited[c] >= timeout
    /\ EndCall(c, Out(IF _protocol = 0 THEN "AttributeError" ELSE "Timeout",
                      << >>), _waiters, call[c])
    /\ rf' = IF _protocol = 0 THEN rf ELSE ClearFuture
    /\ UNCHANGED <<_protocol, _connected, _transaction_id, _key, nfut, torn,
                   sent, answered>>

\* The task of c is cancelled while it awaits wait_for: CancelledError is thrown
\* into the wait (the future is cancelled, a result it holds is lost), the
\* except clause does not match, the finally clause clears the correlator and
\* `async with` releases the lock.
Cancel(c) ==
    /\ UNCHANGED opvars
    /\ pc[c] = "waiting"
    /\ EndCall(c, Out(IF _protocol = 0 THEN "AttributeError"
                      ELSE "CancelledError", << >>), _waiters, call[c])
    /\ rf' = IF _protocol = 0 THEN rf ELSE ClearFuture
    /\ UNCHANGED <<_protocol, _connected, _transaction_id, _key, nfut, torn,
                   sent, answered>>

\* Time passes for the waiting calls while no task is ready to run and no
\* timeout is due.
Tick ==
    /\ UNCHANGED opvars
    /\ woken = {}
    /\ \E c \in Callers : pc[c] = "waiting"
    /\ \A c \in Callers : pc[c] = "waiting" =>
                            fut[c].st = "pending" /\ waited[c] < timeout
    /\ waited' = [c \in Callers |->
                    IF pc[c] = "waiting" THEN waited[c] + 1 ELSE waited[c]]
    /\ call' = [c \in Callers |->
                  IF pc[c] = "waiting" THEN [call[c] EXCEPT !.age = @ + 1]
                  ELSE call[c]]
    /\ UNCHANGED <<_protocol, rf, _connected, _transaction_id, _key, _locked,
                   _waiters, woken, pc, fut, nfut, torn, sent, answered, order,
                   ended>>

Next ==
    \/ connect
    \/ connect_failed
    \/ disconnect
    \/ \E c \in Callers, ok \in BOOLEAN : CallFast(c, ok)
    \/ \E c \in Callers : CallWait(c)
    \/ \E c \in Callers, ok \in BOOLEAN : AcquireResume(c, ok)
    \/ \E i \in 1..Len(sent), kind \in Kinds : PeerReply(i, kind)
    \/ \E i \in 1..Len(sent) : PeerError(i)
    \/ \E c \in Callers, ok \in BOOLEAN : Resume(c, ok)
    \/ \E c \in Callers : Timeout(c)
    \/ \E c \in Callers : Cancel(c)
    \/ Tick

Spec == Init /\ [][Next]_vars

(***************************************************************************)
(* Properties of the session.                                              *)
(***************************************************************************)
\* the fields of the header of a datagram, and its inner frame in clear
TxField(d) == Norm(Slice(d, 0, 4))
TypeField(d) == Slice(d, 4, 6)
KeyField(d) == Slice(d, 6, 10)
InnerFrame(d) == LET m == _encrypt_msg(d, password) IN Slice(m, 15, Len(m))

\* the callers whose request is outstanding: transmitted (or handed to the
\* transport), not yet returned or failed
InFlight == {c \in Callers : pc[c] = "waiting"}

\* the histories of the calls in progress and of the call that ended last
Histories == {call[c] : c \in Callers} \cup {ended.call}

\* C1: at most one request is outstanding.  While a caller's request is
\* outstanding no other caller's request is, no other caller has a response
\* future, the correlator slot holds that caller's future or nothing, and every
\* datagram transmitted since the caller's first one is the caller's own.
C1_OneOutstanding ==
    \A c \in InFlight :
        /\ \A d \in Callers \ {c} : pc[d] # "waiting" /\ fut[d] = NoFuture
        /\ rf \in {0, fut[c].id}
        /\ call[c].tx # << >> =>
              \A i \in call[c].tx[1]..Len(sent) : sent[i].by = c

\* A's datagram is out and unanswered while B has called and waits for the lock
C1_Contended ==
    /\ pc["A"] = "waiting" /\ fut["A"].st = "pending" /\ call["A"].tx = <<1>>
    /\ pc["B"] = "waitlock"

\* C2: transaction_id strictly increases.  The ids of the transmitted datagrams
\* increase strictly in the order of transmission and are all below the
\* session's counter; a call in flight, and a call that ended in success or in
\* Timeout, left the counter above the value it found; and the call after one
\* that ended in success or Timeout starts from a higher value.
C2_TransactionIdIncreases ==
    /\ \A i \in 1..Len(sent) : Less(TxField(sent[i].bytes), _transaction_id)
    /\ \A i, j \in 1..Len(sent) :
          i < j => Less(TxField(sent[i].bytes), TxField(sent[j].bytes))
    /\ \A c \in InFlight : Less(call[c].tid0, _transaction_id)
    /\ ended.kind \in {"ok", "Timeout"} =>
          /\ Less(ended.call.tid0, _transaction_id)
          /\ \A c \in InFlight : Less(ended.call.tid0, call[c].tid0)

\* a call went through a KeySync retry and timed out: two datagrams, numbered
\* 1 and 2, and the counter at 3
C2_RetriedAndTimedOut ==
    /\ ended.kind = "Timeout" /\ ended.call.tx = <<1, 2>>
    /\ TxField(sent[2].bytes) = <<2>> /\ _transaction_id = <<3>>

\* C3: KeySync is absorbed.  On a session that is not torn down, a call that was
\* given the peer's KeySync for its first datagram and the peer's normal
\* response for its retransmission returned the inner frame of that response
\* in clear, without an error, and the session key is the key of the response.
C3_KeySyncAbsorbed ==
    LET h == ended.call
    IN  (/\ InFlight = {} /\ ~torn
         /\ Len(h.tx) = 2 /\ Len(h.got) = 2
         /\ h.got[1] = PeerKeySync(sent[h.tx[1]].bytes, SyncKey)
         /\ h.got[2] = PeerNormal(sent[h.tx[2]].bytes, RespKey))
        => /\ ended.kind = "ok"
           /\ ended.data = RespInner
           /\ _key = RespKey

\* a call returned the response after one KeySync
C3_Absorbed ==
    /\ InFlight = {} /\ ~torn /\ ended.kind = "ok"
    /\ Len(ended.call.got) = 2
    /\ TypeField(ended.call.got[1]) = TYPE_SYNC_KEY
    /\ KeyField(ended.call.got[1]) # KeyField(ended.call.got[2])

\* C4: the retry after KeySync.  A call in flight transmits again only when it
\* was given a KeySync datagram (outer type 0x1111); the retransmission is the
\* next datagram the client transmits after the call's request, and it carries
\* the inner frame of that request, a greater transaction id (1 then 2 on a
\* fresh session) and, as its key, the key of the KeySync.
C4_RetryAfterKeySync ==
    [][\A c \in Callers :
          (pc[c] = "waiting" /\ Len(sent') > Len(sent)) =>
              LET a  == sent[Len(sent)]
                  b  == sent'[Len(sent')]
                  ks == fut[c].data
              IN  /\ fut[c].st = "result" /\ TypeField(ks) = TYPE_SYNC_KEY
                  /\ Len(sent') = Len(sent) + 1
                  /\ call[c].tx # << >>
                  /\ call[c].tx[Len(call[c].tx)] = Len(sent)
                  /\ a.by = c /\ b.by = c /\ pc'[c] = "waiting"
                  /\ InnerFrame(b.bytes) = InnerFrame(a.bytes)
                  /\ InnerFrame(b.bytes) = FrameOf(c)
                  /\ Less(TxField(a.bytes), TxField(b.bytes))
                  /\ KeyField(b.bytes) = KeyField(ks)
                  /\ _transaction_id = <<2>>
                        => TxField(a.bytes) = <<1>> /\ TxField(b.bytes) = <<2>>]_vars

\* the first call of a session has retransmitted with the key 0xDEADBEEF
C4_Retransmitted ==
    \E c \in InFlight :
        /\ call[c].tx = <<1, 2>>
        /\ TypeField(call[c].got[1]) = TYPE_SYNC_KEY
        /\ KeyField(sent[2].bytes) = <<239, 190, 173, 222>>

\* C5: KeySync retries share the deadline of the call: the time the wait in
\* force has lasted is the time since the call's first transmission, so that
\* the waits of one call sum up to at most the timeout.
C5_SharedDeadline ==
    \A c \in InFlight : waited[c] = call[c].age

C7_TimeoutAndLateDatagram ==
    [][/\ \A c \in Callers :
            (pc[c] = "waiting" /\ pc'[c] = "idle" /\ fut[c].st = "pending"
             /\ ~torn /\ ~Cancel(c))
                => /\ waited[c] >= timeout
                   /\ ended'.by = c /\ ended'.kind = "Timeout" /\ rf' = 0
       /\ (answered' # answered /\ rf = 0)
            => UNCHANGED <<_transaction_id, _key, fut, pc, call, ended>>]_vars

\* the only call so far timed out having been given nothing, and the answer to
\* its datagram came to an empty correlator slot
C7_LateDatagram ==
    /\ ended.kind = "Timeout" /\ ended.call.tx = <<1>> /\ ended.call.got = << >>
    /\ answered = {1} /\ rf = 0 /\ InFlight = {} /\ nfut = 1

\* C8: a Timeout without a datagram keeps the session key.  After a call that
\* ended in Timeout without having been given a datagram the session key is
\* the key the call found; a call in flight that has been given nothing has not
\* changed the key; and the first datagram of every call carries the key the
\* call found.
C8_KeyKeptAcrossTimeout ==
    /\ (InFlight = {} /\ ended.kind = "Timeout" /\ ended.call.got = << >>)
          => _key = ended.call.key0
    /\ \A c \in InFlight : call[c].got = << >> => _key = call[c].key0
    /\ \A h \in Histories :
          h.tx # << >> => KeyField(sent[h.tx[1]].bytes) = PackU32(h.key0)

\* an exchange set the key to that of its response, and the call after it timed
\* out having been given nothing
C8_TimedOutWithKey ==
    /\ InFlight = {} /\ ended.kind = "Timeout" /\ ended.call.got = << >>
    /\ ended.call.tx = <<2>> /\ ended.call.key0 = RespKey

\* C9: requests go out in the order of entry.  The caller in flight is the
\* earliest of the callers whose call is in progress, and no caller that
\* entered after it has transmitted anything: its call ends before theirs
\* transmit.
C9_EntryOrder ==
    /\ \A c \in InFlight : order # << >> /\ order[1] = c
    /\ \A i \in 2..Len(order) :
          pc[order[i]] = "waitlock" /\ call[order[i]].tx = << >>

\* B entered while A's call was in progress, A's call ended, B transmitted,
\* and A has entered again behind B
C9_SecondCallerServed ==
    /\ order = <<"B", "A">> /\ pc["B"] = "waiting" /\ call["B"].queued
    /\ call["B"].tx = <<2>> /\ ended.by = "A" /\ ended.call.tx = <<1>>

\* the errors of C10: Timeout, a transport error or a send failure (OSError),
\* a truncated datagram (struct.error), a malformed response (IndexError)
Errors == {"Timeout", "OSError", "struct.error", "IndexError"}

\* C10: the session is usable after an error.  When the call that ended last
\* ended with an error and no call is in flight, the mutex is free, no
\* correlator is installed and the first caller waiting for the mutex, if
\* any, has been woken to go on with its request.
C10_UsableAfterError ==
    (ended.kind \in Errors /\ InFlight = {})
        => /\ ~_locked
           /\ rf = 0
           /\ _waiters # << >> => Head(_waiters) \in woken

\* the first call timed out unanswered and the call after it returned a
\* response
C10_CompletedAfterError ==
    /\ ended.kind = "ok" /\ ended.call.tx = <<2>> /\ ended.data = RespInner
    /\ 1 \notin answered /\ ~torn /\ nfut = 2

\* C11: the session's state changes under the mutex.  Every step that changes
\* transaction_id, the session key or the correlator slot is a step of a caller
\* that holds the mutex before or after it: the caller takes the lock and
\* transmits, or it resumes from its wait.
C11_ChangesUnderMutex ==
    [][(_transaction_id' # _transaction_id \/ _key' # _key \/ rf' # rf)
          => \E c \in Callers :
                /\ pc[c] = "waiting" \/ pc'[c] = "waiting"
                /\ pc'[c] # pc[c] \/ fut'[c] # fut[c] \/ call'[c] # call[c]]_vars

\* C12: cancellation while waiting for the reply.  When a caller that was
\* cancelled in its wait leaves the call, the correlator slot is empty and the
\* mutex is free; and while no request is in flight after it, the arrival of a
\* reply changes neither the session key nor transaction_id nor the correlator
\* slot nor a future nor the outcome of the call.
C12_CancelledCall ==
    [][/\ \A c \in Callers :
            (pc[c] = "waiting" /\ pc'[c] = "idle"
             /\ ended'.by = c /\ ended'.kind = "CancelledError")
                => rf' = 0 /\ ~_locked'
       /\ (ended.kind = "CancelledError" /\ InFlight = {}
           /\ answered' # answered)
            => UNCHANGED <<_key, _transaction_id, rf, _locked, fut, ended>>]_vars

\* the only call so far was cancelled in its wait, and the reply to its
\* datagram has arrived
C12_ReplyAfterCancel ==
    /\ ended.kind = "CancelledError" /\ ended.call.tx = <<1>>
    /\ answered = {1} /\ InFlight = {} /\ nfut = 1
    /\ _transaction_id = <<2>> /\ _key = << >>

\* C13: the key of a normal response is tracked.  The call that ended last
\* having returned a response was given, last, a datagram that is no KeySync;
\* it returned the inner frame the peer put into that datagram (bytes 15.. in
\* clear); while no call is in flight the session key is the key field of that
\* datagram; and the first datagram of the call after it carries that key.
C13_ResponseKeyTracked ==
    ended.kind = "ok" =>
        LET d == ended.call.got[Len(ended.call.got)]
        IN  /\ TypeField(d) # TYPE_SYNC_KEY
            /\ ended.data = RespInner
            /\ InFlight = {} => _key = Norm(KeyField(d))
            /\ \A c \in InFlight :
                  call[c].tx # << >> =>
                      KeyField(sent[call[c].tx[1]].bytes) = KeyField(d)

\* a call returned a response with the key 7 and the next call has sent its
\* request with that key
C13_NextCarriesKey ==
    /\ ended.kind = "ok" /\ ended.call.tx = <<1>>
    /\ \E c \in InFlight :
          call[c].tx = <<2>> /\ KeyField(sent[2].bytes) = <<7, 0, 0, 0>>

\* C14: not connected.  A caller's request becomes outstanding only on a
\* connected session; and a call that is made before connect has succeeded or
\* after disconnect ends at once with the not-connected error, has transmitted
\* nothing and leaves transaction_id, the session key, the datagrams sent and
\* the correlator slot as they were.
C14_NotConnected ==
    [][\A c \in Callers :
          pc[c] # "waiting" =>
              /\ pc'[c] = "waiting" => _protocol = 1 /\ _connected
              /\ (_protocol = 0 /\ ended' # ended /\ ended'.by = c)
                    => /\ ended'.kind = "NotConnected"
                       /\ ended'.call.tx = << >>
                       /\ pc'[c] = "idle"
                       /\ UNCHANGED <<_transaction_id, _key, sent, nfut,
                                      rf>>]_vars

\* a call after disconnect failed with the not-connected error: one datagram
\* was sent before the disconnect, and the counter is still 2
C14_CallAfterDisconnect ==
    /\ torn /\ ended.kind = "NotConnected" /\ ended.call.tid0 = <<2>>
    /\ Len(sent) = 1 /\ _transaction_id = <<2>> /\ InFlight = {}

(***************************************************************************)
(* The operations on variables: read_variable, write_variable and          *)
(* load_variables, run by one task on a client that no other task uses.    *)
(* Each is cut at its awaits: the step that calls _send_receive runs to    *)
(* the wait for the response (the lock taken, the datagram transmitted,    *)
(* the counter advanced), the step Response ends that wait with a reply of *)
(* the peer or with an error and runs the operation on to its next await   *)
(* or to its end.  The histories of the concurrent callers (sent, call,    *)
(* ended, order) are not kept for this task: what it hands to              *)
(* _send_receive is in requests, and nfut counts its transmissions.        *)
(***************************************************************************)

\* the bounds of the model: the probes of load_variables whose outcome is
\* any of LoadOutcomes (the later ones follow the peer's script), and the
\* larger of the two values of max_variables
MaxFree == 2
MaxVariables == 21

\* line 392
max_failures == 10

\* "T": a name that no read-only prefix matches
Variables ==
    {[name |-> <<84>>, wid |-> 4000, var_type |-> t, writable |-> w] :
        t \in {INT16, INT32, FLOAT, ARRAY, TIME_ARRAY, STRUCTURE},
        w \in BOOLEAN}

\* the values written: 40000 does not fit an Int16
Values == {0, 1, -2, 230, 40000}

\* the control bytes of the responses: every status, and three with bits
\* above the status
Fcbs == (0 .. 15) \cup {64, 67, 72}

\* a response of the ack shape as _send_receive returns it: the envelope
\* carries at least six bytes after the header (payload_len = msg[14] + 6)
AckFrame(fcb) ==
    LET body == <<client_addr % 32, station_addr % 32, fcb>>
    IN  <<16>> \o body \o <<_calc_checksum(body), 22>>

\* a response of the data shape with the value bytes v
DataFrame(fcb, v) ==
    LET body == <<client_addr % 32, station_addr % 32, fcb, 1>> \o v
    IN  <<104, Len(body), Len(body), 104>> \o body
        \o <<_calc_checksum(body), 22>>

\* the value bytes of the responses: none, one, an Int16, three bytes, an
\* Int32 or a Float (1.0)
ValueBytes == {<< >>, <<230>>, <<230, 0>>, <<1, 2, 3>>, <<254, 255, 255, 255>>,
               <<0, 0, 128, 63>>}

\* responses of neither shape, and a frame that starts as a data frame and
\* ends before its control byte
OtherFrames == {<<229, 0, 0, 0, 0, 0>>, <<104, 0, 0, 104, 31, 4>>}

\* the inner frames a read or a write may be answered with
Replies ==
    {AckFrame(f) : f \in Fcbs}
    \cup {DataFrame(f, v) : f \in Fcbs, v \in ValueBytes}
    \cup OtherFrames

\* the errors _send_receive raises
SendReceiveErrors == {"TimeoutError", "OSError", "IndexError", "struct.error",
                      "CancelledError"}

Reply(data) == [kind |-> "ok", data |-> data]
Raised(e) == [kind |-> e, data |-> << >>]

Outcomes == {Reply(d) : d \in Replies} \cup {Raised(e) : e \in SendReceiveErrors}

Return(n, v) == [name |-> n, kind |-> "return", value |-> v, error |-> ""]
Raise(n, e) == [name |-> n, kind |-> "raise", value |-> NoValue, error |-> e]

\* lines 359-371 of read_variable: what it does with what _send_receive
\* returned or raised
ReadResult(v, o) ==
    IF o.kind # "ok" THEN Raise("read_variable", o.kind)
    ELSE LET p == _parse_response(o.data)
         IN  IF p.error # "" THEN Raise("read_variable", p.error)
             ELSE IF Len(p.value_data) < 2
             THEN Raise("read_variable", "RuntimeError")
             ELSE IF v.var_type = INT16
             THEN Return("read_variable",
                         IntValue(UnpackI16V(Slice(p.value_data, 0, 2))))
             ELSE IF Len(Slice(p.value_data, 0, 4)) # 4
             THEN Raise("read_variable", "struct.error")
             ELSE IF v.var_type = INT32
             THEN Return("read_variable",
                         IntValue(UnpackI32V(Slice(p.value_data, 0, 4))))
             ELSE Return("read_variable",
                         FloatValue(UnpackF32V(Slice(p.value_data, 0, 4))))

\* a variant that takes every status for a success
Accepted_Any(status) == TRUE

\* line 385
Accepted(status) == status \in {0, 8}

\* lines 382-385 of write_variable
WriteResult(o) ==
    IF o.kind # "ok" THEN Raise("write_variable", o.kind)
    ELSE LET p == _parse_response(o.data)
         IN  IF p.error # "" THEN Raise("write_variable", p.error)
             ELSE Return("write_variable", BoolValue(Accepted(p.status)))

(***************************************************************************)
(* load_variables: the descriptors and the loop.                           *)
(***************************************************************************)

\* str.isalpha of one character decoded from latin-1: the letters of ASCII
\* and those of the upper half of latin-1
isalpha(ch) ==
    ch \in (65 .. 90) \cup (97 .. 122) \cup {170, 181, 186} \cup (192 .. 214)
           \cup (216 .. 246) \cup (248 .. 255)

\* bytes.find(b'\x00') from position i (counted from 1): the index counted
\* from 0, or -1
RECURSIVE FindNul(_, _)
FindNul(b, i) ==
    IF i > Len(b) THEN -1
    ELSE IF b[i] = 0 THEN i - 1 ELSE FindNul(b, i + 1)

\* bytes.rstrip(b'\x00')
RECURSIVE RstripNul(_)
RstripNul(b) ==
    IF b # << >> /\ b[Len(b)] = 0 THEN RstripNul(SubSeq(b, 1, Len(b) - 1))
    ELSE b

\* lines 420-425: the name in the twelve bytes of a descriptor
DescriptorName(name_bytes) ==
    LET null_idx == FindNul(name_bytes, 1)
    IN  IF null_idx > 0 THEN Slice(name_bytes, 0, null_idx)
        ELSE RstripNul(name_bytes)

\* str.startswith(prefix)
StartsWith(name, prefix) ==
    Len(name) >= Len(prefix) /\ SubSeq(name, 1, Len(prefix)) = prefix

\* line 462-476: TE, TEPROST, TEVEN, TTUV, Trek, pokoj, Por, ALARM, Stav,
\* status, CO2_, koupl, Teoko
readonly_prefixes ==
    {<<84, 69>>, <<84, 69, 80, 82, 79, 83, 84>>, <<84, 69, 86, 69, 78>>,
     <<84, 84, 85, 86>>, <<84, 114, 101, 107>>, <<112, 111, 107, 111, 106>>,
     <<80, 111, 114>>, <<65, 76, 65, 82, 77>>, <<83, 116, 97, 118>>,
     <<115, 116, 97, 116, 117, 115>>, <<67, 79, 50, 95>>,
     <<107, 111, 117, 112, 108>>, <<84, 101, 111, 107, 111>>}

_is_readonly_name(name) == \E p \in readonly_prefixes : StartsWith(name, p)

\* lines 428-431: VarType(var_type_code), Structure for an unknown code
VarTypeOf(var_type_code) ==
    IF var_type_code \in {INT16, INT32, FLOAT, ARRAY, TIME_ARRAY, STRUCTURE}
    THEN var_type_code ELSE STRUCTURE

\* line 427: 4000 <= wid <= 6000
InRange(wid) == 4000 <= wid /\ wid <= 6000

\* lines 403-440: the Variable a response yields, in a one-element sequence,
\* or the empty sequence if the response is not an accepted descriptor
Descriptor(response) ==
    IF Len(response) < 10 \/ response[1] # 104 THEN << >>
    ELSE LET frame_len == response[2]
             data == Slice(response, 8, 4 + frame_len)
             wid == data[9] + 256 * data[10]
             name == DescriptorName(Slice(data, 12, 24))
         IN  IF Len(data) < 22 THEN << >>
             ELSE IF name # << >> /\ isalpha(name[1]) /\ InRange(wid)
             THEN <<[name |-> name, wid |-> wid,
                     var_type |-> VarTypeOf(data[3]),
                     writable |-> ~_is_readonly_name(name)]>>
             ELSE << >>

\* a path through the loop body that reaches the sleep of line 454: every
\* outcome but a response that the tests of lines 403 and 411 turn down
ReachesSleep(o) ==
    \/ o.kind # "ok"
    \/ /\ Len(o.data) >= 10
       /\ o.data[1] = 104
       /\ Len(Slice(o.data, 8, 4 + o.data[2])) >= 22

\* a variant that returns the catalogue in the order of the scan
sorted_AsScanned(s) == s

\* sorted(variables, key=lambda v: v.wid): a stable insertion sort
RECURSIVE Insert(_, _)
Insert(s, v) ==
    IF s = << >> THEN <<v>>
    ELSE IF s[Len(s)].wid <= v.wid THEN Append(s, v)
    ELSE Append(Insert(SubSeq(s, 1, Len(s) - 1), v), s[Len(s)])

RECURSIVE sorted(_)
sorted(s) ==
    IF s = << >> THEN << >>
    ELSE Insert(sorted(SubSeq(s, 1, Len(s) - 1)), s[Len(s)])

\* the response frame that carries a descriptor: the 24 bytes of the record
\* (type code at 2, WID at 8, name at 12, the rest zero) after the eight
\* bytes of the frame's head
DescriptorFrame(wid, var_type_code, name) ==
    LET data == <<0, 0, var_type_code, 0, 0, 0, 0, 0, wid % 256, wid \div 256,
                  0, 0>> \o name
                \o [i \in 1 .. (12 - Len(name)) |-> 0]
        body == <<client_addr % 32, station_addr % 32, 0, 3>> \o data
    IN  <<104, Len(body), Len(body), 104>> \o body
        \o <<_calc_checksum(body), 22>>

\* descriptors that are turned down: a WID below the range, a name that
\* starts with a digit, a record cut after its WID
RejectedFrame == DescriptorFrame(3999, INT16, <<84, 49>>)
DigitNameFrame == DescriptorFrame(4001, INT16, <<49, 84>>)
CutFrame == DataFrame(0, <<0, 0, 0, 0, 0, 0, 0, 0, 161, 15>>)

\* more descriptors that are turned down: a WID above the range, a name
\* that starts with a NUL
HighWidFrame == DescriptorFrame(6001, INT16, <<84, 49>>)
NulNameFrame == DescriptorFrame(4001, INT16, <<0, 84>>)

\* a response that is no data frame
MalformedFrame == <<229, 0, 0, 0, 0, 0, 0, 0, 0, 0>>

\* the descriptor of the scripted peer at offset i: the WIDs are neither in
\* order nor distinct, every other name ("TE1") has a read-only prefix
ScriptedFrame(i) ==
    DescriptorFrame(4000 + ((5 * i) % 8), i % 7,
                    IF i % 2 = 0 THEN <<84, 69, 49>> ELSE <<88, 65 + (i % 26)>>)

\* the outcomes of a probe whose outcome is free: accepted descriptors (one
\* with an unknown type code, one whose name starts with a letter outside
\* ASCII, one at either end of the range of the WIDs), descriptors turned
\* down, frames that are none, errors
LoadOutcomes ==
    {Reply(DescriptorFrame(4001, 9, <<84, 49>>)),
     Reply(DescriptorFrame(4001, FLOAT, <<233, 49>>)),
     Reply(DescriptorFrame(6000, INT16, <<122>>)),
     Reply(DescriptorFrame(4000, INT32, <<65>>)),
     Reply(RejectedFrame), Reply(HighWidFrame), Reply(DigitNameFrame),
     Reply(NulNameFrame), Reply(CutFrame), Reply(MalformedFrame)}
    \cup {Raised(e) : e \in SendReceiveErrors}

\* the scripts of the peer for the probes after the free ones: every reply
\* malformed, every reply a descriptor turned down, a valid descriptor at
\* the offsets 0..9 and descriptors turned down after them, every reply a
\* valid descriptor, a valid descriptor at every tenth offset (9, 19, ...)
\* with descriptors turned down between them
Peers == {"malformed", "rejected", "ten", "valid", "sparse"}

PeerOutcome(peer, i) ==
    CASE peer = "malformed" -> Reply(MalformedFrame)
      [] peer = "rejected" -> Reply(RejectedFrame)
      [] peer = "ten" -> IF i < 10 THEN Reply(ScriptedFrame(i))
                         ELSE Reply(RejectedFrame)
      [] peer = "valid" -> Reply(ScriptedFrame(i))
      [] peer = "sparse" -> IF i % 10 = 9 THEN Reply(ScriptedFrame(i))
                            ELSE Reply(RejectedFrame)

(***************************************************************************)
(* The steps of the task.                                                  *)
(***************************************************************************)

\* AMiTClient.__init__, or the client as connect() leaves it
InitOps ==
    /\ _protocol \in {0, 1}
    /\ _connected = (_protocol = 1)
    /\ rf = 0
    /\ _transaction_id = <<1>>
    /\ _key = << >>
    /\ _locked = FALSE
    /\ _waiters = << >>
    /\ woken = {}
    /\ pc = [c \in Callers |-> "idle"]
    /\ fut = [c \in Callers |-> NoFuture]
    /\ waited = [c \in Callers |-> 0]
    /\ nfut = 0
    /\ torn = FALSE
    /\ sent = << >>
    /\ answered = {}
    /\ order = << >>
    /\ call = [c \in Callers |-> NoCall]
    /\ ended = [by |-> "", kind |-> "none", data |-> << >>, call |-> NoCall]
    /\ task = NoTask
    /\ requests = << >>
    /\ ret = NoRet

\* lines 295-322 for a task that finds the lock free: the lock taken, the
\* future installed (nfut counts them, and with them the transmissions), the
\* datagram transmitted, the counter advanced
Transmit(pl) ==
    /\ _locked' = TRUE
    /\ nfut' = nfut + 1
    /\ rf' = nfut + 1
    /\ _transaction_id' = NextTransactionId(_transaction_id)
    /\ UNCHANGED <<_protocol, _connected, _key, _waiters, woken, pc, fut,
                   waited, torn, sent, answered, order, call, ended>>

\* lines 326-352 for that task: the wait ends with the outcome o, the slot is
\* cleared, the key of a response is kept, the lock is released
Receive(o) ==
    /\ _locked' = FALSE
    /\ rf' = ClearFuture
    /\ _key' = IF o.kind \in {"ok", "IndexError"} THEN RespKey ELSE _key
    /\ UNCHANGED <<_protocol, _connected, _transaction_id, _waiters, woken, pc,
                   fut, waited, nfut, torn, sent, answered, order, call, ended>>

\* a variant of the except clauses without the second one
Caught_TimeoutOnly(kind) == kind = "TimeoutError"

\* lines 448-452: except TimeoutError and except Exception catch every error
\* but CancelledError, which is no Exception
Caught(kind) == kind # "CancelledError"

\* lines 396-454: the rest of one pass through the loop of load_variables
\* after _send_receive has returned or raised; an error that is not caught
\* leaves the loop
LoadStep(t, o) ==
    IF o.kind # "ok" /\ ~Caught(o.kind)
    THEN /\ task' = [t EXCEPT !.pc = "done", !.outcome = o]
         /\ ret' = Raise("load_variables", o.kind)
    ELSE LET d == IF o.kind = "ok" THEN Descriptor(o.data) ELSE << >>
         IN  /\ task' = [t EXCEPT
                           !.pc = "loop",
                           !.index = @ + 1,
                           !.consecutive_failures =
                               IF d # << >> THEN 0 ELSE @ + 1,
                           !.variables = @ \o d,
                           !.accepted = Append(@, d # << >>),
                           !.sleeps = IF ReachesSleep(o) THEN @ + 1 ELSE @,
                           !.outcome = o]
             /\ UNCHANGED ret

\* the operation t goes on with what _send_receive returned or raised
Continue(t, o) ==
    IF t.name = "read_variable"
    THEN /\ task' = [t EXCEPT !.pc = "done", !.outcome = o]
         /\ ret' = ReadResult(t.variable, o)
    ELSE IF t.name = "write_variable"
    THEN /\ task' = [t EXCEPT !.pc = "done", !.outcome = o]
         /\ ret' = WriteResult(o)
    ELSE LoadStep(t, o)

\* the operation t calls _send_receive(frame): it goes on at once if the
\* client is not connected (line 298) or the counter cannot be packed, and
\* waits for the response otherwise
Call(t, frame) ==
    /\ requests' = Append(requests, frame)
    /\ IF NotConnected
       THEN Continue(t, Raised("RuntimeError")) /\ UNCHANGED sessvars
       ELSE IF PackI32(_transaction_id) = StructError
       THEN Continue(t, Raised("struct.error")) /\ UNCHANGED sessvars
       ELSE /\ Transmit(frame)
            /\ task' = [t EXCEPT !.pc = "awaiting"]
            /\ UNCHANGED ret

\* an operation that raises before it calls _send_receive
Refuse(t, e) ==
    /\ task' = [t EXCEPT !.pc = "done"]
    /\ ret' = Raise(t.name, e)
    /\ UNCHANGED requests
    /\ UNCHANGED sessvars

\* lines 354-360
read_variable(v) ==
    /\ task.name = "none"
    /\ LET t == [NoTask EXCEPT !.name = "read_variable", !.variable = v]
       IN  IF ~is_readable(v) THEN Refuse(t, "ValueError")
           ELSE Call(t, _create_read_frame(TheClient, Dig(v.wid), v.var_type))

\* lines 373-382
write_variable(v, value) ==
    /\ task.name = "none"
    /\ LET t == [NoTask EXCEPT !.name = "write_variable", !.variable = v,
                               !.value = value]
           frame == _create_write_frame(TheClient, Dig(v.wid), value, v.var_type)
       IN  IF ~v.writable \/ ~is_readable(v) THEN Refuse(t, "ValueError")
           ELSE IF frame = StructError THEN Refuse(t, "struct.error")
           ELSE Call(t, frame)

\* lines 387-392: the call of load_variables against a peer whose first
\* `free` replies are any and whose later replies follow the script `peer`
load_variables(max_variables, peer, free) ==
    /\ task.name = "none"
    /\ task' = [NoTask EXCEPT !.name = "load_variables", !.pc = "loop",
                              !.max_variables = max_variables,
                              !.peer = peer, !.free = free]
    /\ UNCHANGED <<requests, ret>>
    /\ UNCHANGED sessvars

\* a variant of the loop's test that does not count the failures
FailuresLeft_Always(t) == TRUE

\* line 396, first half
FailuresLeft(t) == t.consecutive_failures < max_failures

\* a variant that counts every failure of the scan, not the failures in a row
LoopTest_Total(t) ==
    t.index - Len(t.variables) < max_failures /\ t.index < t.max_variables

\* line 396
LoopTest(t) == FailuresLeft(t) /\ t.index < t.max_variables

\* a variant of line 398 that probes every second offset
ProbeAddress_Even(index) == Add(<<0, 0, 253, 255>>, Dig(2 * index))

\* line 398: 0xFFFD0000 + index
ProbeAddress(index) == Add(<<0, 0, 253, 255>>, Dig(index))

\* lines 396-399: the loop goes on, the next probe is handed to _send_receive
load_probe ==
    /\ task.name = "load_variables"
    /\ task.pc = "loop"
    /\ LoopTest(task)
    /\ Call(task, _create_read_memory_frame(TheClient, ProbeAddress(task.index), Dig(26)))

\* lines 396 and 456-457: the loop ends, the catalogue is sorted and returned
load_return ==
    /\ task.name = "load_variables"
    /\ task.pc = "loop"
    /\ ~LoopTest(task)
    /\ task' = [task EXCEPT !.pc = "done"]
    /\ ret' = Return("load_variables", ListValue(sorted(task.variables)))
    /\ UNCHANGED requests
    /\ UNCHANGED sessvars

\* what the wait of the task may end with
OutcomesOf(t) ==
    IF t.name # "load_variables" THEN Outcomes
    ELSE IF t.index < t.free THEN LoadOutcomes
    ELSE {PeerOutcome(t.peer, t.index)}

\* the wait in _send_receive ends and the operation goes on
Response ==
    /\ task.pc = "awaiting"
    /\ \E o \in OutcomesOf(task) :
          /\ Receive(o)
          /\ Continue(task, o)
    /\ UNCHANGED requests

\* the frames _parse_response is applied to: the responses, the acks of
\* five bytes, and frames of fewer bytes
ShortAck(fcb) ==
    LET body == <<client_addr % 32, station_addr % 32, fcb>>
    IN  <<16>> \o body \o <<_calc_checksum(body)>>

Frames == Replies \cup {ShortAck(f) : f \in Fcbs}
          \cup {<< >>, <<104, 2, 2, 104>>, <<229>>}

\* _parse_response applied to a frame
parse_response(data) ==
    /\ task.name = "none"
    /\ task' = [NoTask EXCEPT !.name = "_parse_response", !.pc = "done",
                              !.outcome = Reply(data)]
    /\ ret' = LET p == _parse_response(data)
              IN  IF p.error # "" THEN Raise("_parse_response", p.error)
                  ELSE Return("_parse_response", TupleValue(p))
    /\ UNCHANGED requests
    /\ UNCHANGED sessvars

NextOps ==
    \/ \E v \in Variables : read_variable(v)
    \/ \E v \in Variables, value \in Values : write_variable(v, value)
    \/ \E mv \in {0, 2, MaxVariables}, peer \in Peers, free \in 0 .. MaxFree :
          load_variables(mv, peer, free)
    \/ load_probe
    \/ load_return
    \/ Response
    \/ \E data \in Frames : parse_response(data)

SpecOps == InitOps /\ [][NextOps]_vars

(***************************************************************************)
(* Properties of the operations on variables.                              *)
(***************************************************************************)

\* what a call of _send_receive changes is as it was
Untouched ==
    /\ requests' = requests
    /\ nfut' = nfut
    /\ _locked' = _locked
    /\ rf' = rf
    /\ _transaction_id' = _transaction_id
    /\ _key' = _key

\* C15: read_variable on a variable whose type is Array, TimeArray or
\* Structure, and write_variable on such a variable or on a variable that is
\* not writable, raise an error before a frame is built: the step that runs
\* the call hands no frame to _send_receive, transmits no datagram, does not
\* take the lock and leaves the counter and the key as they are.
C15_RefusedBeforeFrame ==
    [][(/\ task.name = "none"
        /\ task'.name \in {"read_variable", "write_variable"}
        /\ \/ task'.variable.var_type \in {ARRAY, TIME_ARRAY, STRUCTURE}
           \/ task'.name = "write_variable" /\ ~task'.variable.writable)
       => /\ task'.pc = "done"
          /\ ret'.kind = "raise"
          /\ ret'.error = "ValueError"
          /\ Untouched]_vars

\* a write of a scalar variable that is not writable was refused on a
\* connected client
C15_RefusedWrite ==
    /\ _protocol = 1
    /\ task.name = "write_variable"
    /\ task.variable.var_type = INT16
    /\ ~task.variable.writable
    /\ ret.error = "ValueError"
    /\ nfut = 0

\* the control byte of a response: byte 3 of the ack shape, byte 6 of the
\* data shape
FcbOf(data) == IF data[1] = 16 THEN data[4] ELSE data[7]

\* the responses of the two shapes
Shaped == {AckFrame(f) : f \in Fcbs}
          \cup {DataFrame(f, v) : f \in Fcbs, v \in ValueBytes}

\* C16: a write of a writable scalar variable that is answered by a response
\* of the ack shape or of the data shape returns, and it returns true if the
\* status of the response (the low four bits of its control byte) is 0 or 8
\* and false if it is any of the other fourteen; it returns on no other
\* outcome.
C16_WriteStatus ==
    (task.name = "write_variable" /\ task.pc = "done"
     /\ task.outcome.kind # "none")
    => /\ (ret.kind = "return") <=> (task.outcome.kind = "ok"
                                      /\ task.outcome.data \in Shaped)
       /\ ret.kind = "return"
          => ret.value.bool = (FcbOf(task.outcome.data) % 16 \in {0, 8})

\* a write was answered by an ack whose control byte is 0x48 (status 8 under
\* a bit above the status) and returned true
C16_AcceptedAck ==
    /\ task.name = "write_variable"
    /\ task.outcome.data = AckFrame(72)
    /\ ret.kind = "return"
    /\ ret.value.bool

\* C17: read_variable returns a value only from a response whose status is 0
\* or 8; a response that parses with any other status makes it fail.
C17_RejectedRead ==
    (task.name = "read_variable" /\ task.pc = "done"
     /\ task.outcome.kind = "ok" /\ task.outcome.data \in Shaped
     /\ FcbOf(task.outcome.data) % 16 \notin {0, 8})
    => ret.kind = "raise"

\* C18: parsing is selected by the first byte of the frame: an ack
\* [0x10, dest, src, fcb, fcs] of five bytes parses to (dest, src, fcb & 0x0F,
\* empty), a frame that starts with 0x68 and has its control byte parses to
\* (byte 4, byte 5, byte 6 & 0x0F, bytes 8 .. 8 + L - 4) with L = byte 1, a
\* frame with another first byte fails as malformed, and a status returned is
\* in 0 .. 15.
C18_ParsedByFirstByte ==
    (task.name = "_parse_response" /\ task.pc = "done")
    => LET data == task.outcome.data
       IN  /\ (Len(data) = 5 /\ data[1] = 16)
              => /\ ret.kind = "return"
                 /\ ret.value.tuple.dest_addr = data[2]
                 /\ ret.value.tuple.src_addr = data[3]
                 /\ ret.value.tuple.status = data[4] % 16
                 /\ ret.value.tuple.value_data = << >>
           /\ (Len(data) >= 7 /\ data[1] = 104)
              => /\ ret.kind = "return"
                 /\ ret.value.tuple.dest_addr = data[5]
                 /\ ret.value.tuple.src_addr = data[6]
                 /\ ret.value.tuple.status = data[7] % 16
                 /\ ret.value.tuple.value_data = Slice(data, 8, 8 + data[2] - 4)
           /\ (Len(data) >= 1 /\ data[1] \notin {16, 104})
              => ret.kind = "raise" /\ ret.error = "ValueError"
           /\ ret.kind = "return" => ret.value.tuple.status \in 0 .. 15

\* the variable that the descriptor of the scripted peer at offset i < 10
\* describes: "TE1" (read-only by its prefix) at the even offsets, "X" and a
\* letter at the odd ones, the type code 6 taken for Structure
ExpectedVariable(i) ==
    [name |-> IF i % 2 = 0 THEN <<84, 69, 49>> ELSE <<88, 65 + i>>,
     wid |-> 4000 + ((5 * i) % 8),
     var_type |-> IF i % 7 = 6 THEN STRUCTURE ELSE i % 7,
     writable |-> i % 2 = 1]

\* C19: on a connected client, against a peer whose every reply to a probe is
\* malformed or a descriptor that is turned down, load_variables sends at most
\* 10 probes, does not go on after the tenth and returns the empty list;
\* against a peer whose replies are valid descriptors at the offsets 0..9 and
\* are turned down from offset 10 on, it (if max_variables allows 20 probes)
\* sends 20 probes, none after the tenth failure in a row, and returns
\* exactly the 10 variables described.
C19_EnumerationEnds ==
    (task.name = "load_variables" /\ task.free = 0 /\ _protocol = 1)
    => /\ task.peer \in {"malformed", "rejected"}
          => /\ Len(requests) <= 10
             /\ nfut = Len(requests)
             /\ task.variables = << >>
             /\ (Len(requests) = 10 /\ task.pc = "loop") => ~LoopTest(task)
             /\ task.pc = "done" => ret = Return("load_variables", ListValue(<< >>))
       /\ (task.peer = "ten" /\ task.max_variables >= 20)
          => /\ Len(requests) <= 20
             /\ nfut = Len(requests)
             /\ task.pc = "loop" => (LoopTest(task) <=> Len(requests) < 20)
             /\ task.pc = "done"
                => /\ Len(requests) = 20
                   /\ ret.kind = "return"
                   /\ Len(ret.value.list) = 10
                   /\ \A i \in 0 .. 9 :
                         \E j \in 1 .. 10 : ret.value.list[j] = ExpectedVariable(i)

\* the enumeration against the peer with ten valid descriptors has returned
\* ten variables after twenty probes
C19_TenThenFailures ==
    /\ task.name = "load_variables"
    /\ task.peer = "ten"
    /\ task.free = 0
    /\ task.pc = "done"
    /\ nfut = 20
    /\ Len(ret.value.list) = 10

\* the memory-read frame for the k-th descriptor, k < 256: address
\* 0xFFFD0000 + k, count 26
ProbeFrame(k) ==
    LET body == <<station_addr % 32, client_addr % 32, 77, 3, k, 0, 253, 255,
                  26, 0>>
    IN  <<104, 10, 10, 104>> \o body \o <<_calc_checksum(body), 22>>

\* the ten most recent probes all failed to yield an accepted descriptor
LastTenFailed(acc) ==
    /\ Len(acc) >= 10
    /\ \A i \in (Len(acc) - 9) .. Len(acc) : ~acc[i]

\* the steps load_variables has left at most: two for each offset not yet
\* probed (the call of _send_receive and its end), and the return
Remaining(t) ==
    IF t.pc = "done" THEN 0
    ELSE 2 * (t.max_variables - t.index) + (IF t.pc = "loop" THEN 2 ELSE 1)

C20_ProbesInOrder ==
    task.name = "load_variables"
    => /\ Len(requests) <= task.max_variables
       /\ task.pc \in {"loop", "awaiting", "done"}
       /\ task.pc = "awaiting" => OutcomesOf(task) # {}
       /\ nfut <= Len(requests)
       /\ Len(requests) = task.index
                           + (IF \/ task.pc = "awaiting"
                                 \/ ret.error = "CancelledError"
                              THEN 1 ELSE 0)
       /\ Len(task.accepted) = task.index
       /\ \A k \in 0 .. (Len(requests) - 1) : requests[k + 1] = ProbeFrame(k)
       /\ task.pc = "loop"
          => (LoopTest(task) <=> /\ task.index < task.max_variables
                                 /\ ~LastTenFailed(task.accepted))
       /\ (task.pc = "done" /\ ret.kind = "return")
          => \/ task.index = task.max_variables
             \/ LastTenFailed(task.accepted)

\* C20: whatever the peer does, load_variables ends: each of its steps
\* lowers the number of steps it has left at most, and short of its end it
\* always has a step to take (the next probe or the return at the head of the
\* loop, an outcome of the wait in _send_receive).  It hands at most
\* max_variables probes to _send_receive, the k-th of them (k = 0, 1, ...) the
\* memory read of address 0xFFFD0000 + k with count 26, no offset skipped or
\* repeated; the loop goes on exactly while fewer than max_variables offsets
\* have been probed and the ten most recent probes have not all failed, and
\* unless it is cancelled it returns when that is no longer so.
C20_EnumerationBounded ==
    /\ []C20_ProbesInOrder
    /\ [][task.name = "load_variables"
          => /\ Remaining(task') < Remaining(task)
             /\ Remaining(task') >= 0]_vars

\* against a peer with a valid descriptor at every offset the enumeration
\* has probed max_variables offsets and returned
C20_AllOffsetsProbed ==
    /\ task.name = "load_variables"
    /\ task.peer = "valid"
    /\ task.pc = "done"
    /\ ret.kind = "return"
    /\ task.max_variables = MaxVariables
    /\ nfut = MaxVariables
    /\ ~LastTenFailed(task.accepted)

\* the number of times v occurs in the sequence s
Count(s, v) == Cardinality({i \in 1 .. Len(s) : s[i] = v})

\* the WID in a response that carries a descriptor: the bytes 8 and 9 of the
\* record that starts at byte 8 of the frame
WidIn(response) == response[17] + 256 * response[18]

C21_SortedCatalogue ==
    (task.name = "load_variables" /\ task.pc = "done" /\ ret.kind = "return")
    => LET l == ret.value.list
       IN  /\ Len(l) = Len(task.variables)
           /\ \A i \in 1 .. Len(l) :
                 Count(l, l[i]) = Count(task.variables, l[i])
           /\ \A i \in 1 .. (Len(l) - 1) : l[i].wid <= l[i + 1].wid

\* C21: the list load_variables returns holds exactly the descriptors that
\* were accepted during the scan, each as often as it was accepted, and is in
\* the order of non-decreasing wid: a probe that yields an accepted
\* descriptor adds the variable it describes, no other step changes the
\* catalogue, and the list returned is the catalogue reordered.
C21_CatalogueAsAccepted ==
    /\ []C21_SortedCatalogue
    /\ [][task.name = "load_variables"
          => IF Len(task'.accepted) > Len(task.accepted)
                /\ task'.accepted[Len(task'.accepted)]
             THEN /\ Len(task'.variables) = Len(task.variables) + 1
                  /\ SubSeq(task'.variables, 1, Len(task.variables))
                        = task.variables
                  /\ task'.variables[Len(task'.variables)].wid
                        = WidIn(task'.outcome.data)
             ELSE task'.variables = task.variables]_vars

\* a catalogue of at least three variables was returned in another order
\* than the peer delivered it in
C21_Reordered ==
    /\ task.name = "load_variables"
    /\ task.pc = "done"
    /\ ret.kind = "return"
    /\ Len(ret.value.list) >= 3
    /\ ret.value.list # task.variables

\* C22: no two variables of a catalogue that load_variables returns have the
\* same wid.
C22_UniqueWid ==
    (task.name = "load_variables" /\ task.pc = "done" /\ ret.kind = "return")
    => \A i, j \in 1 .. Len(ret.value.list) :
          ret.value.list[i].wid = ret.value.list[j].wid => i = j

\* the first byte of the name in a response that carries a descriptor: byte
\* 12 of the record that starts at byte 8 of the frame
FirstOfNameIn(response) == response[21]

\* C23: a probed descriptor is added to the catalogue if and only if its name
\* begins with an ASCII letter (A-Z, a-z) and its wid is in 4000 .. 6000;
\* every other descriptor counts as a failure.
C23_AcceptedDescriptor ==
    (/\ task.name = "load_variables"
     /\ task.accepted # << >>
     /\ task.outcome.kind = "ok"
     /\ Len(task.outcome.data) = 34)
    => (task.accepted[Len(task.accepted)]
        <=> /\ FirstOfNameIn(task.outcome.data) \in (65 .. 90) \cup (97 .. 122)
            /\ WidIn(task.outcome.data) \in 4000 .. 6000)

\* the errors of a probe: what _send_receive raises for a timeout, a
\* transport error, a truncated datagram or a client that is not connected
ProbeErrors == {"TimeoutError", "OSError", "IndexError", "struct.error",
                "RuntimeError"}

C24_OnlyCancelRaises ==
    (task.name = "load_variables" /\ ret.kind = "raise")
    => /\ ret.error = "CancelledError"
       /\ task.outcome.kind = "CancelledError"

\* C24: load_variables does not pass the error of a probe on to its caller:
\* a probe that ends with an error of _send_receive, or with a response that
\* is no accepted descriptor, adds one to the count of consecutive failures,
\* leaves the catalogue as it is and goes back to the head of the loop, and
\* the call ends by returning a list unless the task is cancelled.
C24_ProbeErrorsTolerated ==
    /\ []C24_OnlyCancelRaises
    /\ [][(/\ task.name = "load_variables"
           /\ Len(task'.accepted) > Len(task.accepted)
           /\ \/ task'.outcome.kind \in ProbeErrors
              \/ ~task'.accepted[Len(task'.accepted)])
          => /\ task'.consecutive_failures = task.consecutive_failures + 1
             /\ task'.variables = task.variables
             /\ task'.index = task.index + 1
             /\ task'.pc = "loop"
             /\ ret' = ret]_vars

\* an enumeration of two offsets whose probes both failed, the second by a
\* truncated datagram, has returned a list
C24_ReturnedAfterErrors ==
    /\ task.name = "load_variables"
    /\ task.pc = "done"
    /\ ret.kind = "return"
    /\ task.outcome.kind = "IndexError"
    /\ task.consecutive_failures = 2

(***************************************************************************)
(* The codec: the module-level functions and the frame builders applied to *)
(* inputs of bounded sets, one application per behaviour.  The arguments   *)
(* are kept in task (integers as digit sequences in task.args), the result *)
(* or the error raised in ret.                                             *)
(***************************************************************************)
\* the longest byte sequence handed to _calc_checksum
MaxData == 4

\* 32-bit words: the ends of the range, the sign bit, and values between
Words == {<< >>, <<1>>, <<2>>, <<255>>, <<0, 1>>, <<57, 48>>,
          <<21, 205, 91, 7>>, <<255, 255, 255, 127>>, <<0, 0, 0, 128>>,
          <<255, 255, 255, 255>>}

\* passwords of a client: the default 0, and two others
Passwords == {<< >>, <<1>>, <<57, 48>>}

\* station and client addresses, within and beyond five bits
Addresses == {0, 4, 31, 36, 255}

\* WIDs over the sixteen bits of the frame
Wids == {0, 255, 4000, 65535}

\* the values written with each scalar type: the ends of the type's range
\* and values between
ValuesOf(var_type) ==
    IF var_type = INT16 THEN {-32768, -2, 0, 230, 32767}
    ELSE IF var_type = INT32
    THEN {-2147483647 - 1, -32769, -2, 0, 40000, 2147483647}
    ELSE {-2, 0, 1, 230}

\* inner frames of 6, 13 and 17 bytes
InnerFrames ==
    {<<229, 0, 0, 0, 0, 0>>,
     _create_read_frame(TheClient, Dig(4000), INT16),
     _create_write_frame(TheClient, Dig(4001), 40000, INT32)}

\* a datagram of the layout lines 301-307 write and lines 338-352 read: the
\* transaction id, the type, the key, the checksum, len(inner) - 6, the inner
\* frame, and what follows it
Envelope(transaction_id, k, inner, rest) ==
    PackU32(transaction_id) \o <<0, 0>> \o PackU32(k) \o <<0, 0, 0, 0>>
    \o <<Len(inner) - 6>> \o inner \o rest

Envelopes ==
    {Envelope(t, k, inner, rest) :
        t \in {<<1>>, <<0, 0, 0, 128>>, <<255, 255, 255, 255>>},
        k \in {<< >>, <<57, 48>>, <<255, 255, 255, 255>>},
        inner \in InnerFrames, rest \in {<< >>, <<170, 85>>}}

\* the byte sequences of at most n bytes over the bytes 0, 1, 128 and 255
RECURSIVE BytesUpTo(_)
BytesUpTo(n) ==
    IF n = 0 THEN {<< >>}
    ELSE LET s == BytesUpTo(n - 1)
         IN  s \cup {Append(d, b) : d \in s, b \in {0, 1, 128, 255}}

\* the key with which transaction_id + key + fcs + 256 of a payload is 2^32
WrapKey(transaction_id, pl) ==
    LET frame_cs == _calc_checksum(Slice(pl, 4, 4 + pl[2]))
    IN  Add(Not32(Add(Add(transaction_id, Dig(frame_cs)), Dig(256))), <<1>>)

Applied(n, a) == [NoTask EXCEPT !.name = n, !.pc = "done", !.args = a]

BytesOrError(n, b) ==
    IF b = StructError THEN Raise(n, "struct.error")
    ELSE IF b = IndexError THEN Raise(n, "IndexError")
    ELSE Return(n, BytesValue(b))

\* _encrypt_msg(msg, password) on a copy of msg
encrypt_msg(msg, pw) ==
    /\ task.name = "none"
    /\ task' = Applied("_encrypt_msg", <<msg, pw>>)
    /\ ret' = BytesOrError("_encrypt_msg", _encrypt_msg(msg, pw))
    /\ UNCHANGED requests
    /\ UNCHANGED sessvars

\* _randomize(seed, password); the result as its four bytes
randomize(seed, pw) ==
    /\ task.name = "none"
    /\ task' = Applied("_randomize", <<seed, pw>>)
    /\ ret' = Return("_randomize", BytesValue(PackU32(_randomize(seed, pw))))
    /\ UNCHANGED requests
    /\ UNCHANGED sessvars

\* _calc_checksum(data)
calc_checksum(data) ==
    /\ task.name = "none"
    /\ task' = Applied("_calc_checksum", <<data>>)
    /\ ret' = Return("_calc_checksum", IntValue(_calc_checksum(data)))
    /\ UNCHANGED requests
    /\ UNCHANGED sessvars

\* lines 301-315 of _send_receive_internal for a client with the password pw:
\* the datagram handed to sendto
build_msg(pw, transaction_id, k, pl) ==
    /\ task.name = "none"
    /\ task' = Applied("_send_receive_internal", <<pw, transaction_id, k, pl>>)
    /\ ret' = BytesOrError("_send_receive_internal",
                  BuildMsg(AMiTClient(station_addr, client_addr, pw),
                           transaction_id, k, pl))
    /\ UNCHANGED requests
    /\ UNCHANGED sessvars

\* the builders of a client with the addresses station and client
create_read_frame(station, client, wid, var_type) ==
    /\ task.name = "none"
    /\ task' = [Applied("_create_read_frame", <<Dig(station), Dig(client)>>)
                    EXCEPT !.variable.wid = wid, !.variable.var_type = var_type]
    /\ ret' = BytesOrError("_create_read_frame",
                  _create_read_frame(AMiTClient(station, client, password),
                                     Dig(wid), var_type))
    /\ UNCHANGED requests
    /\ UNCHANGED sessvars

create_write_frame(station, client, wid, value, var_type) ==
    /\ task.name = "none"
    /\ task' = [Applied("_create_write_frame", <<Dig(station), Dig(client)>>)
                    EXCEPT !.variable.wid = wid, !.variable.var_type = var_type,
                           !.value = value]
    /\ ret' = BytesOrError("_create_write_frame",
                  _create_write_frame(AMiTClient(station, client, password),
                                      Dig(wid), value, var_type))
    /\ UNCHANGED requests
    /\ UNCHANGED sessvars

create_read_memory_frame(station, client, address, count) ==
    /\ task.name = "none"
    /\ task' = Applied("_create_read_memory_frame",
                       <<Dig(station), Dig(client), address, count>>)
    /\ ret' = BytesOrError("_create_read_memory_frame",
                  _create_read_memory_frame(
                      AMiTClient(station, client, password), address, count))
    /\ UNCHANGED requests
    /\ UNCHANGED sessvars

NextCodec ==
    \/ \E msg \in Envelopes, pw \in Passwords : encrypt_msg(msg, pw)
    \/ \E seed \in Words, pw \in Words : randomize(seed, pw)
    \/ \E data \in BytesUpTo(MaxData) : calc_checksum(data)
    \/ \E pw \in Passwords,
          t \in {<<1>>, <<2>>, <<255, 255, 255, 127>>, <<0, 0, 0, 128>>,
                 <<0, 0, 0, 0, 1>>},
          pl \in {_create_read_frame(TheClient, Dig(4000), INT16),
                  _create_read_memory_frame(TheClient, ProbeAddress(0), Dig(26))} :
          \E k \in {<< >>, <<5>>, WrapKey(t, pl), <<255, 255, 255, 255>>} :
             build_msg(pw, t, k, pl)
    \/ \E station \in Addresses, client \in Addresses, wid \in Wids,
          var_type \in {INT16, INT32, FLOAT} :
          create_read_frame(station, client, wid, var_type)
    \/ \E station \in Addresses, client \in Addresses, wid \in Wids,
          var_type \in {INT16, INT32, FLOAT} :
          \E value \in ValuesOf(var_type) :
             create_write_frame(station, client, wid, value, var_type)
    \/ \E station \in Addresses, client \in Addresses,
          address \in {ProbeAddress(0), ProbeAddress(1), << >>,
                       <<255, 255, 255, 255>>},
          count \in {<< >>, Dig(26), <<255, 255>>} :
          create_read_memory_frame(station, client, address, count)

SpecCodec == Init /\ [][NextCodec]_vars

(***************************************************************************)
(* Properties of the codec.                                                *)
(***************************************************************************)

\* C25: the stream cipher applied twice to an envelope whose byte 14 is
\* len(inner) - 6 gives the envelope back, so the inner frame is recovered
\* byte for byte; one application leaves the 15 bytes of the header and
\* every byte after the declared inner length as they were.
C25_CipherInvolution ==
    task.name = "_encrypt_msg" =>
        LET msg == task.args[1]
            pw == task.args[2]
            once == ret.value.bytes
            end == HEADER_SIZE + msg[15] + 6
        IN  /\ ret.kind = "return"
            /\ Len(once) = Len(msg)
            /\ _encrypt_msg(once, pw) = msg
            /\ Slice(_encrypt_msg(once, pw), HEADER_SIZE, end)
                 = Slice(msg, HEADER_SIZE, end)
            /\ \A j \in 1 .. Len(msg) :
                  (j <= HEADER_SIZE \/ j > end) => once[j] = msg[j]

\* an envelope with a 13-byte inner frame and two bytes after it has been
\* ciphered with a non-zero password: bytes on both sides of the ninth byte
\* of the inner frame have changed
C25_CipheredEnvelope ==
    /\ task.name = "_encrypt_msg"
    /\ ret.kind = "return"
    /\ task.args[2] # << >>
    /\ task.args[1][15] = 7
    /\ Len(task.args[1]) = HEADER_SIZE + 15
    /\ ret.value.bytes[HEADER_SIZE + 1] # task.args[1][HEADER_SIZE + 1]
    /\ ret.value.bytes[HEADER_SIZE + 10] # task.args[1][HEADER_SIZE + 10]

\* the reference generator: a password of 0 is replaced by 1, and every
\* addition, shift and multiplication wraps at 32 bits
RECURSIVE PRNGLoop(_, _, _, _)
PRNGLoop(n, seed, key, mult) ==
    IF n = 0 THEN <<key, mult>>
    ELSE LET k2 == Mask32(Add(Mask32(Add(key, key)), <<13>>))
         IN  PRNGLoop(n - 1, seed, k2, Mask32(Mul(Mask32(Add(mult, k2)), seed)))

PRNG(seed, pw) ==
    LET p == IF pw = << >> THEN <<1>> ELSE pw
        r == PRNGLoop(4, seed, p, Mask32(Mul(seed, p)))
    IN  Mask32(Add(Mask32(Add(p, r[2])), r[1]))

\* C26: for a seed and a password in 0..2^32-1, _randomize, which masks only
\* its final result, returns what the reference generator returns, whose
\* every step wraps at 32 bits; with the password 0 it returns what it
\* returns with the password 1; _randomize(1, 1) is 581.
C26_RandomizeWraps ==
    task.name = "_randomize" =>
        LET seed == task.args[1]
            pw == task.args[2]
            out == ret.value.bytes
        IN  /\ ret.kind = "return"
            /\ out = PackU32(PRNG(seed, pw))
            /\ pw = << >> => out = PackU32(_randomize(seed, <<1>>))
            /\ (seed = <<1>> /\ pw = <<1>>) => out = PackU32(Dig(581))
            /\ (seed = <<57, 48>> /\ pw = <<0, 0, 0, 128>>)
                   => out = <<5, 51, 9, 186>>

\* _randomize(2^32 - 1, 2^32 - 1), whose products exceed 32 bits, has
\* returned 59
C26_WrappedProduct ==
    /\ task.name = "_randomize"
    /\ task.args = <<<<255, 255, 255, 255>>, <<255, 255, 255, 255>>>>
    /\ Len(Mul(task.args[1], task.args[2])) > 4
    /\ ret.value.bytes = <<59, 0, 0, 0>>

\* transaction_id + key + fcs + 256 of the datagram built, fcs being the
\* checksum of the inner frame
ChecksumInput(transaction_id, k, pl) ==
    Add(Add(Add(transaction_id, k),
            Dig(_calc_checksum(Slice(pl, 4, 4 + pl[2])))), Dig(256))

\* C27: bytes 10..13 of a transmitted datagram are the reference generator's
\* value for the seed password and the password transaction_id + key + fcs
\* + 256 wrapped to 32 bits, also when the sum reaches 2^32 and when the
\* wrapped sum is 0 (which counts as 1).
C27_HeaderChecksum ==
    (task.name = "_send_receive_internal" /\ ret.kind = "return") =>
        LET pw == task.args[1]
            sum == ChecksumInput(task.args[2], task.args[3], task.args[4])
        IN  Slice(ret.value.bytes, 10, 14) = PackU32(PRNG(pw, Mask32(sum)))

\* the 8-bit end-around-carry sum of a total: the carry out of the low eight
\* bits is added back until none is left
RECURSIVE EndAround(_)
EndAround(n) == IF n < 256 THEN n ELSE EndAround((n \div 256) + (n % 256))

\* C28: _calc_checksum returns the 8-bit end-around-carry sum of the bytes, a
\* value in 0..255, and returns the same for the sequence with a zero byte
\* appended.
C28_EndAroundCarry ==
    task.name = "_calc_checksum" =>
        LET data == task.args[1]
        IN  /\ ret.kind = "return"
            /\ ret.value.int = EndAround(SumFrom(data, 1))
            /\ ret.value.int \in 0 .. 255
            /\ _calc_checksum(Append(data, 0)) = ret.value.int
            /\ _calc_checksum(<<0>> \o data) = ret.value.int

\* the checksum of 255, 255, 1 has been taken: the carry is added back twice
\* and the result is 1
C28_CarriedTwice ==
    /\ task.name = "_calc_checksum"
    /\ task.args[1] = <<255, 255, 1>>
    /\ ret.value.int = 1

\* the builders, and the length byte of the frame each of them builds
Builders ==
    {"_create_read_frame", "_create_write_frame", "_create_read_memory_frame"}

LengthOf(t) ==
    IF t.name = "_create_read_frame" THEN 7
    ELSE IF t.name = "_create_read_memory_frame" THEN 10
    ELSE IF t.variable.var_type = INT16 THEN 9 ELSE 11

\* C29: a frame built by the read, the write or the memory-read builder is
\* 0x68, L, L, 0x68, dest, src, fcb, function, payload, fcs, 0x16 of L + 6
\* bytes, with dest = station & 0x1F, src = client & 0x1F, L the number of
\* bytes from dest to the last payload byte (7 for a read, 9 for an Int16
\* write, 11 for a 4-byte write, 10 for a memory read) and fcs the checksum
\* of exactly those L bytes.
C29_FrameShape ==
    task.name \in Builders =>
        LET frame == ret.value.bytes
            L == LengthOf(task)
        IN  /\ ret.kind = "return"
            /\ Len(frame) = L + 6
            /\ SubSeq(frame, 1, 4) = <<104, L, L, 104>>
            /\ frame[5] = Val(task.args[1]) % 32
            /\ frame[6] = Val(task.args[2]) % 32
            /\ frame[L + 5] = _calc_checksum(SubSeq(frame, 5, L + 4))
            /\ frame[L + 6] = 22
            /\ \A j \in 1 .. Len(frame) : frame[j] \in 0 .. 255

\* a client with the station address 36 and the client address 255 has
\* built an Int32 write frame: eleven bytes from dest 4 and src 31 on
C29_BuiltInt32Write ==
    /\ task.name = "_create_write_frame"
    /\ task.variable.var_type = INT32
    /\ task.args = <<<<36>>, <<255>>>>
    /\ ret.kind = "return"
    /\ SubSeq(ret.value.bytes, 2, 8) = <<11, 11, 104, 4, 31, 69, 2>>

\* C30: a read frame built for (wid, type) or a write frame built for (wid,
\* type, value), decoded at the positions of the frame layout (the type at
\* byte 8, the WID little-endian at bytes 9..10, the value little-endian and
\* signed from byte 11, two bytes for Int16 and four for Int32), gives back
\* the WID, the type and the value, for WIDs over 0..65535, each scalar type
\* and values over the type's signed range; the read frame of (4000, Int16)
\* of station 4 and client 31 is 68 07 07 68 04 1F 4D 01 00 A0 0F fcs 16.
C30_FrameRoundTrip ==
    task.name \in {"_create_read_frame", "_create_write_frame"} =>
        LET frame == ret.value.bytes
            v == task.variable
        IN  /\ ret.kind = "return"
            /\ frame[9] = v.var_type
            /\ frame[10] + 256 * frame[11] = v.wid
            /\ (task.name = "_create_write_frame" /\ v.var_type = INT16)
                   => UnpackI16V(SubSeq(frame, 12, 13)) = task.value
            /\ (task.name = "_create_write_frame" /\ v.var_type = INT32)
                   => UnpackI32V(SubSeq(frame, 12, 15)) = task.value
            /\ (task.name = "_create_read_frame" /\ v.wid = 4000
                    /\ v.var_type = INT16 /\ task.args = <<<<4>>, <<31>>>>)
                   => frame = <<104, 7, 7, 104, 4, 31, 77, 1, 0, 160, 15,
                                _calc_checksum(<<4, 31, 77, 1, 0, 160, 15>>), 22>>

\* the Int32 write frame of WID 65535 and the value -2^31 has been built:
\* the WID bytes are FF FF and the value bytes 00 00 00 80
C30_BuiltLowestInt32 ==
    /\ task.name = "_create_write_frame"
    /\ task.variable.var_type = INT32
    /\ task.variable.wid = 65535
    /\ task.value = -2147483647 - 1
    /\ ret.kind = "return"
    /\ SubSeq(ret.value.bytes, 10, 15) = <<255, 255, 0, 0, 0, 128>>

(***************************************************************************)
(* Further properties of the session.                                      *)
(***************************************************************************)

\* C31: every datagram transmitted is a 15-byte header and the ciphered inner
\* frame: bytes 0..3 are the transaction id and bytes 6..9 the session key
\* at the moment of sending, bytes 4..5 are 0, byte 14 plus 6 is the length
\* of the inner frame, and bytes 10..13 are the header checksum in clear,
\* written after the cipher ran.  The datagram of the first send of a
\* session carries the transaction id 1 and the key 0.
C31_EnvelopeLayout ==
    /\ []((sent # << >> /\ nfut = Len(sent)) =>
            /\ TxField(sent[1].bytes) = <<1>>
            /\ KeyField(sent[1].bytes) = <<0, 0, 0, 0>>)
    /\ [][Len(sent') > Len(sent) =>
            LET d == sent'[Len(sent')].bytes
                inner == FrameOf(sent'[Len(sent')].by)
            IN  /\ Len(sent') = Len(sent) + 1
                /\ Len(d) = HEADER_SIZE + Len(inner)
                /\ Slice(d, 0, 4) = PackU32(_transaction_id)
                /\ TypeField(d) = <<0, 0>>
                /\ KeyField(d) = PackU32(_key')
                /\ d[15] + 6 = Len(inner)
                /\ Slice(d, 10, 14) =
                      PackU32(_randomize(password,
                                  ChecksumInput(_transaction_id, _key', inner)))
                /\ Slice(d, 15, Len(d)) =
                      Slice(_encrypt_msg(Slice(d, 0, 10) \o <<0, 0, 0, 0>>
                                         \o <<d[15]>> \o inner, password),
                            15, Len(d))
                /\ InnerFrame(d) = inner]_vars

\* two datagrams are out: A's with the transaction id 1 and the key 0, then
\* B's with the transaction id 2 and the key 7 of the response to A
C31_TwoEnvelopes ==
    /\ Len(sent) = 2
    /\ sent[1].by = "A" /\ sent[2].by = "B"
    /\ Slice(sent[1].bytes, 0, 10) = <<1, 0, 0, 0, 0, 0, 0, 0, 0, 0>>
    /\ Slice(sent[2].bytes, 0, 10) = <<2, 0, 0, 0, 0, 0, 7, 0, 0, 0>>
    /\ sent[2].bytes[15] = 10

\* C32: the transaction counter wraps unchecked: whatever value the counter
\* has reached, 2^31 and 2^32 included, the envelope is built and its bytes
\* 0..3 hold the counter modulo 2^32; the size of the counter fails no send.
C32_CounterWraps ==
    task.name = "_send_receive_internal" =>
        /\ ret.kind = "return"
        /\ Slice(ret.value.bytes, 0, 4) = Pad(task.args[2], 4)

(***************************************************************************)
(* Further properties of the enumeration.                                  *)
(***************************************************************************)

\* C33: the pacing delay is taken between any two consecutive probes of the
\* enumeration, on every path through the loop: every pass that ends with
\* the next offset has slept, also a pass whose response does not start
\* with 0x68 or carries fewer than 22 payload bytes, and a pass whose probe
\* timed out.
C33_PacedProbes ==
    task.name = "load_variables" => task.sleeps = task.index

\* the failures at the end of the history of a scan
RECURSIVE TrailingFailures(_)
TrailingFailures(acc) ==
    IF acc = << >> \/ acc[Len(acc)] THEN 0
    ELSE 1 + TrailingFailures(SubSeq(acc, 1, Len(acc) - 1))

\* ten failures in a row among the first n probes of the history
TenFailedWithin(acc, n) ==
    \E k \in 10 .. n : k <= Len(acc) /\ \A i \in (k - 9) .. k : ~acc[i]

C34_FailuresInARow ==
    task.name = "load_variables"
    => /\ task.consecutive_failures = TrailingFailures(task.accepted)
       /\ (task.pc = "done" /\ ret.kind = "return")
          => /\ \A i \in 1 .. task.max_variables :
                   ~TenFailedWithin(task.accepted, i - 1)
                      => Len(task.accepted) >= i
             /\ Len(ret.value.list) = Count(task.accepted, TRUE)

\* C34: an accepted descriptor sets the count of failures in a row to zero:
\* the count is the number of failing probes since the last accepted
\* descriptor, so that the scan that returns has probed every offset below
\* max_variables that no ten failing probes in a row precede, its catalogue
\* holds every descriptor accepted there, and gaps of up to nine failing
\* offsets between valid descriptors do not end it.
C34_AcceptedResets ==
    /\ []C34_FailuresInARow
    /\ [][(/\ task.name = "load_variables"
           /\ Len(task'.accepted) > Len(task.accepted)
           /\ task'.accepted[Len(task'.accepted)])
          => task'.consecutive_failures = 0]_vars

\* against the peer with a valid descriptor at the offsets 9 and 19 only the
\* enumeration has probed all 21 offsets and returned the two variables
C34_SparseCatalogue ==
    /\ task.name = "load_variables"
    /\ task.peer = "sparse"
    /\ task.free = 0
    /\ task.pc = "done"
    /\ ret.kind = "return"
    /\ task.index = 21
    /\ Len(ret.value.list) = 2
    /\ ret.value.list[1].wid = 4005 /\ ret.value.list[2].wid = 4007
    /\ task.consecutive_failures = 1

\* C35: transaction_id is 1 plus the number of datagrams the session has
\* handed to the transport (nfut; sent holds those the transport sent): a
\* transmission, original or KeySync retransmission, advances it by exactly
\* one, whether the request later succeeds, times out or is cancelled; a
\* step that transmits nothing, and so a call that fails before it
\* transmits, leaves it as it is; no two datagrams sent carry the same
\* transaction id.
C35_CounterCountsSends ==
    /\ [](/\ _transaction_id = Dig(nfut + 1)
          /\ Len(sent) <= nfut
          /\ \A i, j \in 1 .. Len(sent) :
                TxField(sent[i].bytes) = TxField(sent[j].bytes) => i = j)
    /\ [][/\ Len(sent') > Len(sent)
             => /\ Len(sent') = Len(sent) + 1
                /\ _transaction_id' = Add(_transaction_id, <<1>>)
                /\ TxField(sent'[Len(sent')].bytes) = _transaction_id
          /\ (\A c \in Callers : pc'[c] = "waiting" => fut'[c] = fut[c])
             => _transaction_id' = _transaction_id
          /\ (ended' # ended /\ ended'.call.tx = << >>
              /\ ended'.kind \in {"NotConnected", "struct.error"})
             => _transaction_id' = _transaction_id]_vars

\* a call was cancelled after its KeySync retransmission: two datagrams are
\* out and the counter is 3
C35_CancelledAfterRetry ==
    /\ ended.kind = "CancelledError"
    /\ ended.call.tx = <<1, 2>>
    /\ Len(sent) = 2 /\ nfut = 2
    /\ _transaction_id = <<3>>
    /\ InFlight = {}

\* C36: the response given to a caller is the peer's reply to that caller's
\* own request: every datagram a call was given answers a datagram that
\* call transmitted (the peer's reply carries the transaction id of the
\* request it answers), also when the reply to a request that timed out
\* arrives while the next request is in flight.
C36_OwnReply ==
    \A h \in Histories :
        \A k \in 1 .. Len(h.got) :
            \E m \in 1 .. Len(h.tx) :
                Slice(h.got[k], 0, 4) = Slice(sent[h.tx[m]].bytes, 0, 4)

\* C37: a transmitted datagram consumes at most one received datagram.  The
\* datagram that arrives while the correlator is pending completes it and
\* changes nothing else; a datagram that arrives when the correlator is
\* completed (the caller has not resumed yet) or cleared is dropped: no
\* future, no result of a call, neither the session key nor the counter
\* changes; the datagram a completed future holds stays until its caller
\* resumes; and no call is given more datagrams than it transmitted.
C37_OneDatagramConsumed ==
    /\ [](\A h \in Histories : Len(h.got) <= Len(h.tx))
    /\ [][/\ answered' # answered
             => /\ UNCHANGED <<_key, _transaction_id, rf, pc, call, ended, sent>>
                /\ IF Waiting(rf)
                   THEN \A c \in Callers :
                           IF fut[c].id = rf
                           THEN /\ fut'[c].id = rf
                                /\ fut'[c].st \in {"result", "exc"}
                           ELSE fut'[c] = fut[c]
                   ELSE fut' = fut
          /\ \A c \in Callers :
                (fut[c].st = "result" /\ fut'[c].id = fut[c].id)
                   => fut'[c] = fut[c]]_vars

\* B's request is out, its future holds a datagram, B has not resumed, and
\* the answers to both datagrams sent so far have arrived: one of them was
\* dropped
C37_SecondDropped ==
    /\ pc["B"] = "waiting"
    /\ fut["B"].st = "result"
    /\ call["B"].tx = <<2>>
    /\ call["B"].got = << >>
    /\ answered = {1, 2}
    /\ rf = fut["B"].id

\* C38: the session key changes only in _send_receive, in the step in which
\* a caller resumes with a datagram that was delivered to its pending
\* correlator, and becomes the key field (bytes 6..9) of that datagram; the
\* assignment comes before the datagram is validated: a call that fails
\* with IndexError on a response that is no KeySync (its declared inner
\* length exceeds the bytes present) leaves the session key equal to the
\* key field of that response.
C38_KeyBeforeValidation ==
    [][/\ _key' # _key
          => \E c \in Callers :
                /\ pc[c] = "waiting"
                /\ fut[c].st = "result"
                /\ rf = fut[c].id
                /\ fut'[c] # fut[c]
                /\ _key' = Norm(KeyField(fut[c].data))
       /\ (ended' # ended /\ ended'.kind = "IndexError")
          => LET got == ended'.call.got
                 d == got[Len(got)]
             IN  /\ TypeField(d) # TYPE_SYNC_KEY
                 /\ _encrypt_msg(d, password) = IndexError
                 /\ _key' = Norm(KeyField(d))]_vars

\* the first call of the session failed on a response that lost its last
\* byte, and the session key is the key 7 of that response
C38_KeyOfBrokenResponse ==
    /\ ended.kind = "IndexError"
    /\ ended.call.key0 = << >>
    /\ Len(ended.call.got) = 1
    /\ Len(ended.call.got[1]) = HEADER_SIZE + Len(RespInner) - 1
    /\ _key = RespKey
    /\ InFlight = {}

\* C39: disconnect during the wait for a reply.  A call whose wait ends when
\* its deadline has passed after disconnect was called (its future still
\* pending) ends with Timeout, the mutex is free after it and the session
\* is not connected.
C39_DisconnectWhileWaiting ==
    [][\A c \in Callers :
          (/\ torn /\ pc[c] = "waiting" /\ fut[c].st = "pending"
           /\ waited[c] >= timeout /\ pc'[c] = "idle")
          => /\ ended'.by = c
             /\ ended'.kind = "Timeout"
             /\ ~_locked'
             /\ ~_connected' /\ _protocol' = 0]_vars

\* C40: a KeySync retransmission is sent under the mutex of the original
\* caller.  The step in which a call in flight transmits again holds the
\* mutex before and after, wakes no waiter and leaves the queue of the mutex
\* as it is; while a call is in flight the mutex is held, the datagrams the
\* call has transmitted are consecutive in the order of transmission, and
\* the callers waiting for the mutex have transmitted nothing since they
\* entered.
C40_RetryUnderMutex ==
    /\ [](\A c \in InFlight :
            /\ _locked
            /\ \A k \in 1 .. (Len(call[c].tx) - 1) :
                  call[c].tx[k + 1] = call[c].tx[k] + 1
            /\ call[c].tx # << >> => call[c].tx[Len(call[c].tx)] = Len(sent)
            /\ \A i \in 1 .. Len(_waiters) :
                  /\ pc[_waiters[i]] = "waitlock"
                  /\ call[_waiters[i]].tx = << >>)
    /\ [][\A c \in Callers :
            (pc[c] = "waiting" /\ pc'[c] = "waiting" /\ Len(sent') > Len(sent))
            => /\ _locked /\ _locked'
               /\ sent'[Len(sent')].by = c
               /\ _waiters' = _waiters
               /\ woken' = woken
               /\ \A d \in Callers \ {c} : pc'[d] = pc[d] /\ pc[d] # "waiting"]_vars

\* A has sent its KeySync retransmission while B waits for the mutex
C40_RetriedWhileQueued ==
    /\ pc["A"] = "waiting"
    /\ call["A"].tx = <<1, 2>>
    /\ sent[2].by = "A"
    /\ _waiters = <<"B">>
    /\ pc["B"] = "waitlock"
    /\ woken = {}
    /\ _locked

====
